---- MODULE Spec2Model ----
(***************************************************************************)
(* A model of the widgets of the Tesseract Qt viewer.                      *)
(*                                                                         *)
(*   - TrajectoryPlayerWidget (widgets/trajectory_player.py): the          *)
(*     play/pause/stop/seek state machine over a loaded trajectory.        *)
(*   - JointSlider and JointSliderWidget (widgets/joint_slider.py): the    *)
(*     slider/numeric-field pairs and the aggregate joint-value events.    *)
(*                                                                         *)
(* Every object is a record of its fields.  A handler is an operator from  *)
(* the object's record to the record after the handler has returned; the   *)
(* signals a handler emits are appended, in emission order, to the field   *)
(* `emitted`, which every action clears before it runs its handler, so     *)
(* `emitted` is what one operation emitted.  Qt's widgets are modelled by  *)
(* what the handlers rely on: QSlider.setValue and setRange clamp the      *)
(* value into the range and emit valueChanged only when the value changes; *)
(* QDoubleSpinBox rounds its range and its value to its decimals.          *)
(***************************************************************************)
EXTENDS Integers, Sequences, FiniteSets, TLC

\* ------------------------------------------------------------------ bounds

\* Longest trajectory loaded into the player.
MaxLen == 3

\* Out-of-range distance tried by set_frame on either side of the range.
SeekSlack == 2

\* Largest magnitude, in radian units, of a value handed to set_value,
\* set_values or a JointSlider constructor.
MaxAbs == 7

\* The most visuals a link of a loaded scene graph has.
MaxVisuals == 2

\* The largest n_samples sample_workspace is called with.
MaxSamples == 2

\* The number of different files the viewer loads.
MaxPaths == 11

\* The number of times the viewer opens a file it has loaded before.
MaxPicks == 2

\* The most named poses a StateManager holds.
MaxPoses == 2

\* The most states or groups the editor is let grow to by "Add State".
MaxStates == 2

\* ----------------------------------------------------------------- helpers

Max(a, b) == IF a >= b THEN a ELSE b

Min(a, b) == IF a <= b THEN a ELSE b

\* Python's None, where the code returns or stores it.
None == "None"

\* ------------------------------------------------- TrajectoryPlayerWidget

\* The waypoints trajectories are made of.
Waypoints == {"wa", "wb"}

\* The trajectories load_trajectory is called with: None, or a list of at
\* most MaxLen waypoints (the empty list included).
RECURSIVE SeqsUpTo(_, _)
SeqsUpTo(S, n) ==
    IF n = 0 THEN {<<>>}
    ELSE LET shorter == SeqsUpTo(S, n - 1)
         IN  shorter \cup {Append(s, x) : s \in shorter, x \in S}

NoTrajectory == [isNone |-> TRUE, pts |-> <<>>]

Trajectories ==
    {NoTrajectory} \cup {[isNone |-> FALSE, pts |-> s] : s \in SeqsUpTo(Waypoints, MaxLen)}

\* Python truthiness of the stored trajectory: None and the empty list are false.
Truthy(t) == ~t.isNone /\ Len(t.pts) > 0

\* The values of the speed spin box (setRange(0.1, 5.0)), in tenths.
Speeds == {1, 10, 20, 50}

FrameEvent(n) == [sig |-> "frameChanged", frame |-> n, state |-> "-"]

StateEvent(s) == [sig |-> "stateChanged", frame |-> -1, state |-> s]

Emit(p, e) == [p EXCEPT !.emitted = Append(@, e)]

\* TrajectoryPlayerWidget.__init__ and _setup_ui.
PlayerInit ==
    [ trajectory   |-> NoTrajectory,
      frame        |-> 0,
      frame_count  |-> 0,
      playing      |-> FALSE,
      speed        |-> 10,
      timer_active |-> FALSE,
      updating     |-> FALSE,
      slider_value |-> 0,
      slider_max   |-> 0,
      emitted      |-> <<>> ]

\* _on_slider_changed: the slot of the scrubber's valueChanged.
P_OnSliderChanged(p, value) ==
    IF p.updating THEN p
    ELSE Emit([p EXCEPT !.frame = value], FrameEvent(value))

\* QSlider.setValue on the scrubber: clamp into [0, maximum]; valueChanged is
\* emitted, and its slot run, only when the value changes.
P_SliderSetValue(p, v) ==
    LET nv == Max(0, Min(p.slider_max, v))
    IN  IF nv = p.slider_value THEN p
        ELSE P_OnSliderChanged([p EXCEPT !.slider_value = nv], nv)

\* QSlider.setRange(0, mx) on the scrubber: the value is clamped into the new
\* range, with valueChanged when that changes it.
P_SliderSetRange(p, mx) ==
    LET q  == [p EXCEPT !.slider_max = mx]
        nv == Max(0, Min(mx, p.slider_value))
    IN  IF nv = p.slider_value THEN q
        ELSE P_OnSliderChanged([q EXCEPT !.slider_value = nv], nv)

\* _on_stop moving the scrubber without raising the guard first.
P_OnStop_Unguarded(p) ==
    LET p1 == [p EXCEPT !.playing = FALSE, !.timer_active = FALSE, !.frame = 0]
        p2 == P_SliderSetValue(p1, 0)
    IN  Emit(Emit(p2, FrameEvent(0)), StateEvent("stopped"))

\* _on_stop.
P_OnStop(p) ==
    LET p1 == [p EXCEPT !.playing = FALSE, !.timer_active = FALSE, !.frame = 0]
        p2 == P_SliderSetValue([p1 EXCEPT !.updating = TRUE], 0)
        p3 == [p2 EXCEPT !.updating = FALSE]
    IN  Emit(Emit(p3, FrameEvent(0)), StateEvent("stopped"))

\* load_trajectory giving the scrubber the range [0, N] instead of [0, N-1].
P_LoadTrajectory_RangeN(p, t) ==
    LET n  == IF Truthy(t) THEN Len(t.pts) ELSE 0
        p1 == [p EXCEPT !.trajectory = t, !.frame_count = n, !.frame = 0,
                        !.updating = TRUE]
        p2 == P_SliderSetRange(p1, n)
        p3 == P_SliderSetValue(p2, 0)
    IN  P_OnStop([p3 EXCEPT !.updating = FALSE])

\* load_trajectory.
P_LoadTrajectory(p, t) ==
    LET n  == IF Truthy(t) THEN Len(t.pts) ELSE 0
        p1 == [p EXCEPT !.trajectory = t, !.frame_count = n, !.frame = 0,
                        !.updating = TRUE]
        p2 == P_SliderSetRange(p1, Max(0, n - 1))
        p3 == P_SliderSetValue(p2, 0)
    IN  P_OnStop([p3 EXCEPT !.updating = FALSE])

\* _play without the check for waypoints.
P_Play_Unguarded(p) ==
    [Emit([p EXCEPT !.playing = TRUE], StateEvent("playing")) EXCEPT !.timer_active = TRUE]

\* _play.
P_Play(p) ==
    IF p.frame_count = 0 THEN p
    ELSE [Emit([p EXCEPT !.playing = TRUE], StateEvent("playing"))
            EXCEPT !.timer_active = TRUE]

\* _pause putting the cursor back to the start.
P_Pause_Rewinds(p) ==
    Emit([p EXCEPT !.playing = FALSE, !.timer_active = FALSE, !.frame = 0],
         StateEvent("paused"))

\* _pause.
P_Pause(p) ==
    Emit([p EXCEPT !.playing = FALSE, !.timer_active = FALSE], StateEvent("paused"))

\* _on_play_pause.
P_OnPlayPause(p) == IF p.playing THEN P_Pause(p) ELSE P_Play(p)

\* The tail of _on_timer with the guard left raised.
P_TimerShow_Stuck(p) ==
    LET p1 == P_SliderSetValue([p EXCEPT !.updating = TRUE], p.frame)
    IN  Emit(p1, FrameEvent(p1.frame))

\* The tail of _on_timer once the cursor is settled: move the scrubber under
\* the guard, refresh the labels, emit frameChanged.
P_TimerShow(p) ==
    LET p1 == P_SliderSetValue([p EXCEPT !.updating = TRUE], p.frame)
    IN  Emit([p1 EXCEPT !.updating = FALSE], FrameEvent(p1.frame))

\* _on_timer's end-of-trajectory branch stopping playback instead of looping.
P_TimerAtEnd_Stops(p) == P_OnStop(p)

\* The branch of _on_timer taken when the incremented cursor has reached the
\* waypoint count: loop to 0, or stop when there are no waypoints.
P_TimerAtEnd(p) ==
    IF p.frame_count > 0
    THEN P_TimerShow([p EXCEPT !.frame = 0])
    ELSE P_OnStop(p)

\* _on_timer.
P_OnTimer(p) ==
    IF ~p.playing \/ p.frame_count = 0 THEN p
    ELSE LET p1 == [p EXCEPT !.frame = @ + 1]
         IN  IF p1.frame >= p1.frame_count
             THEN P_TimerAtEnd(p1)
             ELSE P_TimerShow(p1)

\* _on_speed_changed.
P_OnSpeedChanged(p, s) == [p EXCEPT !.speed = s]

\* set_frame clamping an out-of-range frame instead of ignoring it.
P_SetFrame_Clamps(p, f) ==
    IF p.frame_count = 0 THEN p
    ELSE LET g  == Max(0, Min(p.frame_count - 1, f))
             p1 == P_SliderSetValue([p EXCEPT !.frame = g, !.updating = TRUE], g)
         IN  Emit([p1 EXCEPT !.updating = FALSE], FrameEvent(g))

\* set_frame.
P_SetFrame(p, f) ==
    IF 0 <= f /\ f < p.frame_count
    THEN LET p1 == P_SliderSetValue([p EXCEPT !.frame = f, !.updating = TRUE], f)
         IN  Emit([p1 EXCEPT !.updating = FALSE], FrameEvent(f))
    ELSE p

\* get_waypoint with the lower comparison strict: no waypoint at cursor 0.
P_GetWaypoint_Strict(p) ==
    IF Truthy(p.trajectory) /\ 0 < p.frame /\ p.frame < p.frame_count
    THEN p.trajectory.pts[p.frame + 1]
    ELSE None

\* get_waypoint.
P_GetWaypoint(p) ==
    IF Truthy(p.trajectory) /\ 0 <= p.frame /\ p.frame < p.frame_count
    THEN p.trajectory.pts[p.frame + 1]
    ELSE None

\* ------------------------------------------------------------ JointSlider

\* Floats are modelled as fixed-point numbers.  A radian value is an integer
\* number of grid units; a degree value is RAD_TO_DEG times the radian value,
\* so converting never loses precision, as with the floats of the code (up to
\* one unit in the last place, which is not modelled).  What does lose
\* precision is kept: the numeric field rounds to one decimal of a degree,
\* which is SpinStepRad radian units, and int() truncates the slider position.

\* JointSlider.RAD_TO_DEG, the degree units of one radian unit.
RAD_TO_DEG == 57

\* One step of the numeric field (setDecimals(1): 0.1 degree), in radian units.
SpinStepRad == 3

\* The same step in degree units.
DegStep == SpinStepRad * RAD_TO_DEG

\* The integer range of the slider control: setRange(0, 1000).
SliderMax == 1000

Abs(x) == IF x < 0 THEN -x ELSE x

Sgn(x) == IF x < 0 THEN -1 ELSE 1

\* Python's int() of the quotient n / d, d > 0: truncation toward zero.
Trunc(n, d) == Sgn(n) * (Abs(n) \div d)

\* QDoubleSpinBox's rounding of a degree value to its decimals.
RoundToStep(x) == Sgn(x) * (((2 * Abs(x) + DegStep) \div (2 * DegStep)) * DegStep)

\* rad * RAD_TO_DEG.
RadToDeg(r) == r * RAD_TO_DEG

\* deg * DEG_TO_RAD.
DegToRad(d) == Sgn(d) * (Abs(d) \div RAD_TO_DEG)

\* The valueChanged(name, value) signal of a JointSlider; `stored` is the
\* slider's _value at the moment of emission, which is what a slot reading
\* value() during the emission sees.
SliderEvent(s, v) == [name |-> s.name, value |-> v, stored |-> s.value]

S_Emit(s, v) == [s EXCEPT !.emitted = Append(@, SliderEvent(s, v))]

\* The slider position set_value and _on_spinbox_changed compute:
\* int((value - lower) / (upper - lower) * 1000).
S_Position(s, rad) == Trunc((rad - s.lower) * SliderMax, s.upper - s.lower)

RECURSIVE S_OnSliderChanged(_, _), S_OnSpinboxChanged(_, _)
RECURSIVE S_SpinSetValue(_, _), S_SliderSetValue(_, _)

\* QSlider.setValue on the joint's slider: clamp into [0, 1000]; valueChanged,
\* and with it _on_slider_changed, only when the value changes.
S_SliderSetValue(s, v) ==
    LET nv == Max(0, Min(SliderMax, v))
    IN  IF nv = s.slider THEN s
        ELSE S_OnSliderChanged([s EXCEPT !.slider = nv], nv)

\* QDoubleSpinBox.setValue on the joint's numeric field, and a user edit of
\* it: round to the decimals, bound into the range; valueChanged, and with it
\* _on_spinbox_changed, only when the value changes.
S_SpinSetValue(s, d) ==
    LET nv == Max(s.spin_min, Min(s.spin_max, RoundToStep(d)))
    IN  IF nv = s.spin THEN s
        ELSE S_OnSpinboxChanged([s EXCEPT !.spin = nv], nv)

\* JointSlider._on_slider_changed.  `entered` counts the handler bodies run
\* past the guard.
S_OnSliderChanged(s, value) ==
    IF s.updating THEN s
    ELSE LET rad == s.lower + (value * (s.upper - s.lower)) \div SliderMax
             s1  == [s EXCEPT !.updating = TRUE, !.value = rad, !.entered = @ + 1]
             s2  == S_SpinSetValue(s1, RadToDeg(rad))
             s3  == S_Emit(s2, rad)
         IN  [s3 EXCEPT !.updating = FALSE]

\* _on_spinbox_changed without the guard of its first two lines.
S_SpinboxBody_Reentrant(s, deg) ==
    LET rad == DegToRad(deg)
        s1  == [s EXCEPT !.updating = TRUE, !.value = rad, !.entered = @ + 1]
        s2  == IF s.upper > s.lower THEN S_SliderSetValue(s1, S_Position(s1, rad)) ELSE s1
        s3  == S_Emit(s2, rad)
    IN  [s3 EXCEPT !.updating = FALSE]

\* JointSlider._on_spinbox_changed.
S_OnSpinboxChanged(s, deg) ==
    IF s.updating THEN s
    ELSE LET rad == DegToRad(deg)
             s1  == [s EXCEPT !.updating = TRUE, !.value = rad, !.entered = @ + 1]
             s2  == IF s.upper > s.lower
                    THEN S_SliderSetValue(s1, S_Position(s1, rad))
                    ELSE s1
             s3  == S_Emit(s2, rad)
         IN  [s3 EXCEPT !.updating = FALSE]

\* The clamp with its bounds exchanged: min(lower, max(upper, value)).
S_Clamp_Swapped(s, v) == Min(s.lower, Max(s.upper, v))

\* The clamp of set_value: max(lower, min(upper, value)).
S_Clamp(s, v) == Max(s.lower, Min(s.upper, v))

\* set_value without raising the guard around the two control updates.
S_SetValue_Unguarded(s, v) ==
    LET s1 == [s EXCEPT !.value = S_Clamp(s, v)]
        s2 == S_SpinSetValue(s1, RadToDeg(s1.value))
    IN  IF s.upper > s.lower THEN S_SliderSetValue(s2, S_Position(s2, s2.value)) ELSE s2

\* JointSlider.set_value.
S_SetValue(s, v) ==
    LET s1 == [s EXCEPT !.updating = TRUE, !.value = S_Clamp(s, v)]
        s2 == S_SpinSetValue(s1, RadToDeg(s1.value))
        s3 == IF s.upper > s.lower
              THEN S_SliderSetValue(s2, S_Position(s2, s2.value))
              ELSE s2
    IN  [s3 EXCEPT !.updating = FALSE]

\* JointSlider.__init__ and _setup_ui: the slider starts at 0 and the numeric
\* field at 0.0 bounded into its range, which QDoubleSpinBox rounds to one
\* decimal; the change handlers are connected after that; set_value(value)
\* ends the constructor.
S_New(name, lower, upper, value) ==
    LET lo == RoundToStep(RadToDeg(lower))
        hi == RoundToStep(RadToDeg(upper))
    IN  S_SetValue([ name     |-> name,
                     lower    |-> lower,
                     upper    |-> upper,
                     value    |-> value,
                     updating |-> FALSE,
                     slider   |-> 0,
                     spin     |-> Max(lo, Min(hi, 0)),
                     spin_min |-> lo,
                     spin_max |-> hi,
                     emitted  |-> <<>>,
                     entered  |-> 0 ], value)

\* JointSlider.value.
S_Value(s) == s.value

\* ------------------------------------------------------ JointSliderWidget

\* The jointValueChanged(name, value) signal.
JointValueChanged(n, v) ==
    [sig |-> "jointValueChanged", name |-> n, value |-> v, values |-> <<>>]

\* The jointValuesChanged(dict) signal.
JointValuesChanged(m) ==
    [sig |-> "jointValuesChanged", name |-> "-", value |-> 0, values |-> m]

\* JointSliderWidget.__init__.
JointsInit == [sliders |-> <<>>, emitted |-> <<>>]

\* get_values.
J_GetValues(w) == [n \in DOMAIN w.sliders |-> S_Value(w.sliders[n])]

\* _on_joint_changed, the slot of every slider's valueChanged: run once for
\* each event the slider emitted, at the moment it was emitted.
J_OnJointChanged(w, e) ==
    LET now == [n \in DOMAIN w.sliders |->
                   IF n = e.name THEN e.stored ELSE S_Value(w.sliders[n])]
    IN  [w EXCEPT !.emitted = @ \o <<JointValueChanged(e.name, e.value),
                                      JointValuesChanged(now)>>]

RECURSIVE J_Dispatch(_, _)
J_Dispatch(w, evs) ==
    IF evs = <<>> THEN w
    ELSE J_Dispatch(J_OnJointChanged(w, Head(evs)), Tail(evs))

\* A change of one control of slider n: the control's handler runs and every
\* valueChanged it emits reaches _on_joint_changed.
J_ControlChanged(w, n, s) ==
    J_Dispatch([w EXCEPT !.sliders[n] = s], s.emitted)

\* set_joints without self.sliders.clear(): sliders of joints the new mapping
\* does not name stay in the widget.
J_SetJoints_Keeps(w, joints) ==
    [w EXCEPT !.sliders = [n \in DOMAIN joints \cup DOMAIN w.sliders |->
                              IF n \in DOMAIN joints
                              THEN S_New(n, joints[n][1], joints[n][2], joints[n][3])
                              ELSE w.sliders[n]]]

\* set_joints: drop every slider, then one JointSlider per joint of the
\* mapping.  `joints` maps a name to <<lower, upper, value>>.
J_SetJoints(w, joints) ==
    [w EXCEPT !.sliders = [n \in DOMAIN joints |->
                              S_New(n, joints[n][1], joints[n][2], joints[n][3])]]

\* The order in which the widget holds its sliders: set_joints inserts them
\* sorted by name.
NameOrder == <<"j1", "j2">>

\* The slots run for what the sliders emitted while the widget was setting
\* them: every valueChanged of every slider reaches _on_joint_changed.
RECURSIVE J_DispatchAll(_, _)
J_DispatchAll(w, names) ==
    IF names = <<>> THEN w
    ELSE LET n == Head(names)
         IN  J_DispatchAll(IF n \in DOMAIN w.sliders
                           THEN J_Dispatch(w, w.sliders[n].emitted)
                           ELSE w,
                           Tail(names))

\* The loop of set_values, _on_zero_all and _on_random: set_value(to[n]) on
\* every slider n that `to` names.  A slider's set_value touches that slider
\* alone, so the order in which the sliders are walked does not matter.
J_SetEach(w, to) ==
    J_DispatchAll([w EXCEPT !.sliders = [n \in DOMAIN w.sliders |->
                       IF n \in DOMAIN to
                       THEN S_SetValue(w.sliders[n], to[n])
                       ELSE w.sliders[n]]],
                  NameOrder)

\* The last line of set_values, _on_zero_all and _on_random.
J_EmitValues(w) == [w EXCEPT !.emitted = Append(@, JointValuesChanged(J_GetValues(w)))]

\* set_values: names without a slider are skipped.
J_SetValues(w, values) == J_EmitValues(J_SetEach(w, values))

\* Zero-all moving every joint to the middle of its range.
J_OnZeroAll_Middle(w) ==
    J_EmitValues(J_SetEach(w, [n \in DOMAIN w.sliders |->
                                  (w.sliders[n].lower + w.sliders[n].upper) \div 2]))

\* _on_zero_all.
J_OnZeroAll(w) == J_EmitValues(J_SetEach(w, [n \in DOMAIN w.sliders |-> 0]))

\* _on_random; `draw` holds the sample random.uniform(lower, upper) returned
\* for each slider.
J_OnRandom(w, draw) == J_EmitValues(J_SetEach(w, draw))

\* -------------------------------------------------- CartesianEditorWidget

\* A pose float is a fixed-point number of CartFine units per 0.001 (of a
\* metre for x, y, z; of a degree for roll, pitch, yaw).  A spin box holds
\* three decimals, so a multiple of CartFine; a slider holds int(value * 1000).
CartFine == 10

\* The six axis controls, in the order _setup_ui creates them and _emit_pose
\* reads them.
Axes == <<"x", "y", "z", "roll", "pitch", "yaw">>

AxisSet == {Axes[i] : i \in DOMAIN Axes}

\* The angular axes, whose spin boxes hold degrees.
AngleAxes == {"roll", "pitch", "yaw"}

\* The upper end of each axis' range, in thousandths; the range is symmetric.
AxisMax == [a \in AxisSet |->
               IF a \in {"x", "y", "z"} THEN 2000
               ELSE IF a = "pitch" THEN 90000 ELSE 180000]

\* The default of each axis, in thousandths.
AxisDefault == [a \in AxisSet |-> IF a = "z" THEN 500 ELSE 0]

\* QDoubleSpinBox's rounding to three decimals.
RoundFine(x) == Sgn(x) * (((2 * Abs(x) + CartFine) \div (2 * CartFine)) * CartFine)

\* math.degrees of a radian value, and math.radians of a degree value.
Degrees(r) == RadToDeg(r)

Radians(d) == DegToRad(d)

\* The poseChanged(x, y, z, roll, pitch, yaw) signal.
PoseOf(c) ==
    [a \in AxisSet |-> IF a \in AngleAxes THEN Radians(c.spin[a]) ELSE c.spin[a]]

\* CartesianEditorWidget.__init__, _setup_ui and _create_axis_control: the
\* controls get their defaults before their signals are connected.
CartInit ==
    [ updating |-> FALSE,
      spin     |-> [a \in AxisSet |-> AxisDefault[a] * CartFine],
      slider   |-> AxisDefault,
      emitted  |-> <<>>,
      entered  |-> 0 ]

\* One statement after another: the rest of a handler, K, run on the widget
\* state v its first statement left.
Bind(v, K(_)) == CHOOSE r \in {K(u) : u \in {v}} : TRUE

\* _emit_pose.
C_EmitPose(c) == [c EXCEPT !.emitted = Append(@, PoseOf(c))]

RECURSIVE C_OnSliderChanged(_, _, _), C_OnSpinChanged(_, _, _)

\* QDoubleSpinBox.setValue on the spin box of axis a.
C_SpinSetValue(c, a, v) ==
    LET hi == AxisMax[a] * CartFine
        nv == Max(0 - hi, Min(hi, RoundFine(v)))
    IN  IF nv = c.spin[a] THEN c
        ELSE C_OnSpinChanged([c EXCEPT !.spin[a] = nv], a, nv)

\* QSlider.setValue on the slider of axis a.
C_SliderSetValue(c, a, v) ==
    LET nv == Max(0 - AxisMax[a], Min(AxisMax[a], v))
    IN  IF nv = c.slider[a] THEN c
        ELSE C_OnSliderChanged([c EXCEPT !.slider[a] = nv], a, nv)

\* _on_slider_changed; `entered` counts the handler bodies run past the guard.
C_OnSliderChanged(c, a, value) ==
    IF c.updating THEN c
    ELSE LET c1 == [c EXCEPT !.updating = TRUE, !.entered = @ + 1]
         IN  Bind(C_SpinSetValue(c1, a, value * CartFine),
                  LAMBDA c2 : C_EmitPose([c2 EXCEPT !.updating = FALSE]))

\* _on_spin_changed.
C_OnSpinChanged(c, a, value) ==
    IF c.updating THEN c
    ELSE LET c1 == [c EXCEPT !.updating = TRUE, !.entered = @ + 1]
         IN  Bind(C_SliderSetValue(c1, a, Trunc(value, CartFine)),
                  LAMBDA c2 : C_EmitPose([c2 EXCEPT !.updating = FALSE]))

\* The value set_pose hands to the controls of axis a.
C_Shown(pose, a) == IF a \in AngleAxes THEN Degrees(pose[a]) ELSE pose[a]

RECURSIVE C_SetSpins(_, _, _), C_SetSliders(_, _, _)

\* The six spin.setValue calls of set_pose.
C_SetSpins(c, pose, axes) ==
    IF axes = <<>> THEN c
    ELSE Bind(C_SpinSetValue(c, Head(axes), C_Shown(pose, Head(axes))),
              LAMBDA c1 : C_SetSpins(c1, pose, Tail(axes)))

\* The six slider.setValue calls of set_pose.
C_SetSliders(c, pose, axes) ==
    IF axes = <<>> THEN c
    ELSE Bind(C_SliderSetValue(c, Head(axes),
                               Trunc(C_Shown(pose, Head(axes)), CartFine)),
              LAMBDA c1 : C_SetSliders(c1, pose, Tail(axes)))

\* set_pose without raising _updating around the control updates.
C_SetPose_Unguarded(c, pose) ==
    Bind(C_SetSpins(c, pose, Axes), LAMBDA c1 : C_SetSliders(c1, pose, Axes))

\* set_pose.
C_SetPose(c, pose) ==
    Bind(C_SetSpins([c EXCEPT !.updating = TRUE], pose, Axes),
         LAMBDA c1 : [C_SetSliders(c1, pose, Axes) EXCEPT !.updating = FALSE])

\* get_pose.
C_GetPose(c) == PoseOf(c)

\* -------------------------------------------------------------- FKIKWidget

\* The environment handed to set_environment: the kinematic groups it knows,
\* the links its state has a transform for, and its joint state.  The
\* environment is the native library's; it is modelled by what the widget
\* calls on it.
NoEnv == [present |-> FALSE, groups |-> {}, links |-> {}, state |-> <<>>]

\* env.setState(joint_values) raises for a joint the environment does not have.
E_SetStateRaises(env, values) == \E n \in DOMAIN values : n \notin DOMAIN env.state

\* env.setState(joint_values).
E_SetState(env, values) ==
    [env EXCEPT !.state = [n \in DOMAIN env.state |->
                              IF n \in DOMAIN values THEN values[n] ELSE env.state[n]]]

\* The transform env.getState().link_transforms holds for the TCP link, as
\* the pose _update_ik_from_fk extracts from it (position, then rotation_to_rpy):
\* a function of the joint state.
E_TcpPose(env) ==
    LET a == env.state["j1"]
        b == env.state["j2"]
    IN  [x |-> 1003 * (a + b), y |-> 1003 * (a - b), z |-> 5000,
         roll |-> 100 * a, pitch |-> 100 * b, yaw |-> 0]

\* The jointValuesChanged(dict) and ikSolveRequested() signals of FKIKWidget.
FkValuesChanged(m) == [sig |-> "jointValuesChanged", values |-> m]

FkSolveRequested == [sig |-> "ikSolveRequested", values |-> <<>>]

\* FKIKWidget.__init__.  fk_runs counts the bodies of _on_fk_changed run past
\* its guard, solves the IK requests accepted past theirs, and write_guard
\* holds _syncing as it was when a solution was written into the sliders.
FkInit ==
    [ env         |-> NoEnv,
      group_name  |-> "",
      tcp_link    |-> "",
      joint_names |-> <<>>,
      syncing     |-> FALSE,
      js          |-> JointsInit,
      cart        |-> CartInit,
      status      |-> "",
      emitted     |-> <<>>,
      fk_runs     |-> 0,
      solves      |-> 0,
      write_guard |-> FALSE ]

F_Emit(f, e) == [f EXCEPT !.emitted = Append(@, e)]

\* What a child widget emitted during one call: the events past the first
\* `before` of its log.
NewEvents(log, before) == SubSeq(log, before + 1, Len(log))

\* The solver's answer to one request: it raises, finds nothing, or returns
\* solutions whose first is `sol`.
Outcome(kind, sol) == [kind |-> kind, sol |-> sol]

RECURSIVE F_OnFkChanged(_, _, _), F_UpdateIkFromFk(_, _, _)
RECURSIVE F_OnIkPoseChanged(_, _), F_OnIkSolveRequested(_, _)
RECURSIVE F_RoutePoses(_, _, _), F_RouteJoints(_, _, _)

\* cartesian_widget.poseChanged.connect(self._on_ik_pose_changed): the slot
\* runs for every pose the Cartesian editor emitted.
F_RoutePoses(f, poses, oc) ==
    IF poses = <<>> THEN f
    ELSE Bind(F_OnIkPoseChanged(f, oc), LAMBDA g : F_RoutePoses(g, Tail(poses), oc))

\* joint_slider.jointValuesChanged.connect(self._on_fk_changed): the slot
\* runs for every aggregate event the joint widget emitted.
F_RouteJoints(f, events, oc) ==
    IF events = <<>> THEN f
    ELSE Bind(IF Head(events).sig = "jointValuesChanged"
              THEN F_OnFkChanged(f, Head(events).values, oc)
              ELSE f,
              LAMBDA g : F_RouteJoints(g, Tail(events), oc))

\* _update_ik_from_fk.
F_UpdateIkFromFk(f, joint_values, oc) ==
    IF ~f.env.present \/ f.tcp_link = "" THEN f
    ELSE IF E_SetStateRaises(f.env, joint_values)
    THEN [f EXCEPT !.status = "FK: error"]
    ELSE Bind([f EXCEPT !.env = E_SetState(f.env, joint_values)],
              LAMBDA f1 :
                  IF f1.tcp_link \notin f1.env.links THEN f1
                  ELSE Bind(E_TcpPose(f1.env), LAMBDA pose :
                       Bind(C_SetPose(f1.cart, pose), LAMBDA c :
                       Bind(NewEvents(c.emitted, Len(f1.cart.emitted)), LAMBDA poses :
                            F_RoutePoses([f1 EXCEPT !.cart = c], poses, oc)))))

\* _on_fk_changed.
F_OnFkChanged(f, joint_values, oc) ==
    IF f.syncing THEN f
    ELSE Bind(F_UpdateIkFromFk([f EXCEPT !.syncing = TRUE, !.fk_runs = @ + 1],
                               joint_values, oc),
              LAMBDA f2 : F_Emit([f2 EXCEPT !.syncing = FALSE],
                                 FkValuesChanged(joint_values)))

\* _on_ik_pose_changed.
F_OnIkPoseChanged(f, oc) ==
    IF f.syncing THEN f
    ELSE F_OnIkSolveRequested(f, oc)

\* A failure branch of _on_ik_solve_requested, or its except clause, without
\* the reset of _syncing.
F_Fail_Stuck(f, text) == [f EXCEPT !.status = text]

\* A failure branch of _on_ik_solve_requested inside the try, or its except
\* clause: the status text, and the guard lowered.
F_Fail(f, text) == [f EXCEPT !.status = text, !.syncing = FALSE]

\* The success branch with the guard lowered before the sliders are written,
\* and the sliders written through JointSliderWidget.set_values.
F_ApplySolution_Unsynced(f, joint_values, oc) ==
    Bind(J_SetValues(f.js, joint_values), LAMBDA w :
    Bind(NewEvents(w.emitted, Len(f.js.emitted)), LAMBDA events :
    Bind(F_RouteJoints([f EXCEPT !.js = w, !.syncing = FALSE, !.write_guard = FALSE],
                       events, oc),
         LAMBDA f2 :
             F_Emit(F_Emit([f2 EXCEPT !.status = "IK solved", !.syncing = FALSE],
                           FkValuesChanged(joint_values)),
                    FkSolveRequested))))

\* The success branch of _on_ik_solve_requested: set_value on the slider of
\* every solved joint that has one, lower the guard, emit.
F_ApplySolution(f, joint_values, oc) ==
    Bind(J_SetEach(f.js, joint_values), LAMBDA w :
    Bind(NewEvents(w.emitted, Len(f.js.emitted)), LAMBDA events :
    Bind(F_RouteJoints([f EXCEPT !.js = w, !.write_guard = f.syncing], events, oc),
         LAMBDA f2 :
             F_Emit(F_Emit([f2 EXCEPT !.status = "IK solved", !.syncing = FALSE],
                           FkValuesChanged(joint_values)),
                    FkSolveRequested))))

\* _on_ik_solve_requested.
F_OnIkSolveRequested(f, oc) ==
    IF f.syncing THEN f
    ELSE IF f.group_name = "" \/ ~f.env.present
    THEN [f EXCEPT !.status = "No kinematics available"]
    ELSE Bind([f EXCEPT !.syncing = TRUE, !.solves = @ + 1], LAMBDA f1 :
             IF oc.kind = "raise"
             THEN F_Fail(f1, "IK: error")
             ELSE IF f1.group_name \notin f1.env.groups
             THEN F_Fail(f1, "No kinematic group")
             ELSE IF oc.kind = "solution"
             THEN Bind([n \in {f1.joint_names[i] : i \in DOMAIN f1.joint_names} |->
                           oc.sol[n]],
                       LAMBDA joint_values : F_ApplySolution(f1, joint_values, oc))
             ELSE F_Fail(f1, "IK: No solution"))

\* set_environment.  getKinematicGroup returns nothing, or raises, for a
\* group the environment does not know; either way no joint names are kept.
F_SetEnvironment(f, env, group_name, tcp_link, oc) ==
    Bind([f EXCEPT !.env = env, !.tcp_link = tcp_link, !.group_name = group_name],
         LAMBDA f1 :
             IF ~env.present THEN [f1 EXCEPT !.joint_names = <<>>]
             ELSE IF group_name /= "" /\ group_name \in env.groups
             THEN Bind(J_GetValues(f1.js), LAMBDA values :
                       F_UpdateIkFromFk([f1 EXCEPT !.joint_names = NameOrder], values, oc))
             ELSE [f1 EXCEPT !.joint_names = <<>>])

\* FKIKWidget.set_joints.
F_SetJoints(f, joints, oc) ==
    Bind([f EXCEPT !.js = J_SetJoints(f.js, joints)], LAMBDA f1 :
    Bind(J_GetValues(f1.js), LAMBDA values : F_UpdateIkFromFk(f1, values, oc)))

\* set_joint_values.
F_SetJointValues(f, values, emit_signal, oc) ==
    Bind(IF emit_signal THEN f ELSE [f EXCEPT !.syncing = TRUE], LAMBDA f1 :
    Bind(J_SetValues(f1.js, values), LAMBDA w :
    Bind(NewEvents(w.emitted, Len(f1.js.emitted)), LAMBDA events :
    Bind(F_RouteJoints([f1 EXCEPT !.js = w], events, oc), LAMBDA f2 :
         IF emit_signal THEN f2
         ELSE F_UpdateIkFromFk([f2 EXCEPT !.syncing = FALSE], values, oc)))))

\* get_joint_values.
F_GetJointValues(f) == J_GetValues(f.js)

\* A user change of a control of the joint widget, or one of its buttons: the
\* joint widget handles it and its aggregate events reach _on_fk_changed.
F_JointWidgetChanged(f, w, oc) ==
    Bind(w, LAMBDA w1 :
    Bind(NewEvents(w1.emitted, Len(f.js.emitted)), LAMBDA events :
         F_RouteJoints([f EXCEPT !.js = w1], events, oc)))

\* A user change of a control of the Cartesian editor: the editor handles it
\* and its poseChanged events reach _on_ik_pose_changed.
F_CartesianChanged(f, c, oc) ==
    Bind(c, LAMBDA c1 :
    Bind(NewEvents(c1.emitted, Len(f.cart.emitted)), LAMBDA poses :
         F_RoutePoses([f EXCEPT !.cart = c1], poses, oc)))

\* ------------------------------------------ SceneManager, ContactVisualizer

\* An Isometry3d, as a rigid motion of a line: <<orientation, translation>>
\* with orientation 1 or -1.  The product a * b applies b first.
Identity == <<1, 0>>

Compose(a, b) == <<a[1] * b[1], a[1] * b[2] + a[2]>>

\* The colors the scene sets: the default gray (0.7, 0.7, 0.7) of a visual
\* without material, the selection color (1.0, 0.6, 0.0) of highlight_link and
\* the collision color (1.0, 0.3, 0.0) of ContactVisualizer._highlight_link.
\* A material color is named by the material.
DefaultGray == "gray"

SelectColor == "select"

CollisionColor == "collision"

\* The ambient coefficients set with them, in hundredths.
SelectAmbient == 40

CollisionAmbient == 50

\* One visual of a link: whether _create_actor_from_geometry returns an actor
\* for its geometry, its origin, and its material color ("none" without).
Visual(makes, origin, material) ==
    [makes |-> makes, origin |-> origin, material |-> material]

\* The scene graphs of the environments loaded, link name -> visuals.  The
\* arm of the robot has a first visual of a geometry type no actor is built
\* for; the table of the cell has no visual.
SceneGraphs ==
    [ robot |-> [ base |-> <<Visual(TRUE, <<1, 1>>, "red")>>,
                  arm  |-> <<Visual(FALSE, <<1, 2>>, "none"),
                             Visual(TRUE, <<-1, 3>>, "none")>> ],
      cell  |-> [ base  |-> <<Visual(TRUE, <<1, 0>>, "none")>>,
                  table |-> << >> ] ]

\* An Environment object: its scene graph and the value of its joint.
Env(id, q) == [present |-> TRUE, id |-> id, q |-> q]

NoSceneEnv == [present |-> FALSE, id |-> "", q |-> 0]

\* env.getState().link_transforms: the base is fixed, every other link turns
\* and moves with the joint.
LinkTransforms(env) ==
    [l \in DOMAIN SceneGraphs[env.id] |->
        IF l = "base" THEN Identity
        ELSE <<IF env.q % 2 = 1 THEN -1 ELSE 1, 10 * env.q + 5>>]

\* The joints of an environment, and env.setState(values) raising for a name
\* that is none of them.
EnvJoints == {"j1"}

SetStateRaises(values) == \E n \in DOMAIN values : n \notin EnvJoints

\* The f-string key "{link_name}/visual_{i}".
Key(link, i) == <<link, i>>

\* The renderer's actors are counted by what they are: <<kind, environment,
\* name, index>>.  AddActor adds one, RemoveActor removes one if there is one.
ActorId(kind, env, name, i) == <<kind, env, name, i>>

AddActor(r, id) ==
    IF id \in DOMAIN r THEN [r EXCEPT ![id] = @ + 1]
    ELSE [x \in DOMAIN r \cup {id} |-> IF x = id THEN 1 ELSE r[x]]

RemoveActor(r, id) ==
    IF id \notin DOMAIN r THEN r
    ELSE IF r[id] = 1 THEN [x \in DOMAIN r \ {id} |-> r[x]]
    ELSE [r EXCEPT ![id] = @ - 1]

RECURSIVE RemoveActors(_, _), AddActors(_, _)
RemoveActors(r, ids) ==
    IF ids = <<>> THEN r ELSE RemoveActors(RemoveActor(r, Head(ids)), Tail(ids))

AddActors(r, ids) ==
    IF ids = <<>> THEN r ELSE AddActors(AddActor(r, Head(ids)), Tail(ids))

\* The elements of a set, one after another.
RECURSIVE SetToSeq(_)
SetToSeq(S) ==
    IF S = {} THEN <<>>
    ELSE LET x == CHOOSE y \in S : TRUE IN <<x>> \o SetToSeq(S \ {x})

\* The empty dict.
EmptyDict == [x \in {} |-> 0]

\* ContactVisualizer.__init__: the two marker lists hold the actors' ids, and
\* `recolored` logs the links recolored since the table was last emptied.
ContactInit ==
    [contact_actors |-> <<>>, normal_actors |-> <<>>, highlighted_links |-> EmptyDict,
     recolored |-> <<>>]

\* SceneManager.__init__.  `actors` holds each geometry actor with its
\* renderer id, color, ambient and user transform; link_actors holds the keys
\* of a link's actors in list order.  `calls` logs the calls on the
\* environment, the transform push and the render window during one call.
SceneInit ==
    [ renderer        |-> EmptyDict,
      actors          |-> EmptyDict,
      link_actors     |-> EmptyDict,
      path_actors     |-> EmptyDict,
      frame_actors    |-> EmptyDict,
      visual_origins  |-> EmptyDict,
      env             |-> NoSceneEnv,
      workspace_actor |-> FALSE,
      contact_viz     |-> ContactInit,
      fk_actors       |-> EmptyDict,
      tcp_link        |-> "",
      calls           |-> <<>> ]

\* ContactVisualizer.clear: the markers leave the renderer, every recolored
\* actor gets its stored color back, the table is emptied.
CV_Restore(actors, table) ==
    [k \in DOMAIN actors |->
        IF \E l \in DOMAIN table : \E j \in DOMAIN table[l].keys : table[l].keys[j] = k
        THEN LET l == CHOOSE l \in DOMAIN table :
                          \E j \in DOMAIN table[l].keys : table[l].keys[j] = k
                 j == CHOOSE j \in DOMAIN table[l].keys : table[l].keys[j] = k
             IN  [actors[k] EXCEPT !.color = table[l].colors[j], !.ambient = 0]
        ELSE actors[k]]

CV_Clear(s) ==
    LET cv == s.contact_viz
    IN  [s EXCEPT !.renderer = RemoveActors(@, cv.contact_actors \o cv.normal_actors),
                  !.actors = CV_Restore(@, cv.highlighted_links),
                  !.contact_viz = [cv EXCEPT !.contact_actors = <<>>,
                                             !.normal_actors = <<>>,
                                             !.highlighted_links = EmptyDict,
                                             !.recolored = <<>>]]

\* The actors of every list of a dict of actor lists.
RECURSIVE FlattenOver(_, _)
FlattenOver(d, names) ==
    IF names = <<>> THEN <<>> ELSE d[Head(names)] \o FlattenOver(d, Tail(names))

Flatten(d) == FlattenOver(d, SetToSeq(DOMAIN d))

\* _clear_paths.
SM_ClearPaths(s) ==
    [s EXCEPT !.renderer = RemoveActors(@, Flatten(s.path_actors)),
              !.path_actors = EmptyDict]

\* _clear_frames.
SM_ClearFrames(s) ==
    [s EXCEPT !.renderer = RemoveActors(@, SetToSeq({s.frame_actors[n].id :
                                                        n \in DOMAIN s.frame_actors})),
              !.frame_actors = EmptyDict]

\* _clear_workspace.
SM_ClearWorkspace(s) ==
    IF s.workspace_actor
    THEN [s EXCEPT !.renderer = RemoveActor(@, ActorId("workspace", "", "", 0)),
                   !.workspace_actor = FALSE]
    ELSE s

\* clear_fk_viz.
SM_ClearFkViz(s) ==
    [s EXCEPT !.renderer = RemoveActors(@, Flatten(s.fk_actors)),
              !.fk_actors = EmptyDict]

\* SceneManager.clear without its call of _clear_frames.
SM_Clear_KeepsFrames(s) ==
    Bind([s EXCEPT !.renderer = RemoveActors(@, SetToSeq({s.actors[k].id :
                                                             k \in DOMAIN s.actors})),
                   !.actors = EmptyDict,
                   !.link_actors = EmptyDict,
                   !.visual_origins = EmptyDict],
         LAMBDA s1 : SM_ClearFkViz(CV_Clear(SM_ClearWorkspace(SM_ClearPaths(s1)))))

\* SceneManager.clear.
SM_Clear(s) ==
    Bind([s EXCEPT !.renderer = RemoveActors(@, SetToSeq({s.actors[k].id :
                                                             k \in DOMAIN s.actors})),
                   !.actors = EmptyDict,
                   !.link_actors = EmptyDict,
                   !.visual_origins = EmptyDict],
         LAMBDA s1 :
             SM_ClearFkViz(CV_Clear(SM_ClearWorkspace(SM_ClearFrames(SM_ClearPaths(s1))))))

\* update_from_state: the actor at position i of a link's list gets the link
\* transform times the origin stored under "{link}/visual_{i}", or the link
\* transform alone when no origin is stored under that key; a frame of a link
\* gets the link transform.  A link the state has no transform for is skipped.
SM_UpdateFromState(s, state) ==
    LET place(l, i) ==
            IF Key(l, i) \in DOMAIN s.visual_origins
            THEN Compose(state[l], s.visual_origins[Key(l, i)])
            ELSE state[l]
        placed(k) ==
            \E l \in DOMAIN s.link_actors \cap DOMAIN state :
                \E p \in DOMAIN s.link_actors[l] : s.link_actors[l][p] = k
        at(k) ==
            LET l == CHOOSE l \in DOMAIN s.link_actors \cap DOMAIN state :
                         \E p \in DOMAIN s.link_actors[l] : s.link_actors[l][p] = k
                p == CHOOSE p \in DOMAIN s.link_actors[l] : s.link_actors[l][p] = k
            IN  place(l, p - 1)
    IN  [s EXCEPT !.actors = [k \in DOMAIN s.actors |->
                                 IF placed(k) THEN [s.actors[k] EXCEPT !.xform = at(k)]
                                 ELSE s.actors[k]],
                  !.frame_actors = [n \in DOMAIN s.frame_actors |->
                                       IF n \in DOMAIN s.link_actors \cap DOMAIN state
                                       THEN [s.frame_actors[n] EXCEPT !.xform = state[n]]
                                       ELSE s.frame_actors[n]],
                  !.calls = Append(@, "update_from_state")]

\* The keys of the actors load_environment builds for one link, in the order
\* of its visuals: a visual without actor is skipped, the others keep their
\* own index.
RECURSIVE MadeKeys(_, _, _)
MadeKeys(link, visuals, i) ==
    IF i > Len(visuals) THEN <<>>
    ELSE (IF visuals[i].makes THEN <<Key(link, i - 1)>> ELSE <<>>)
             \o MadeKeys(link, visuals, i + 1)

\* load_environment.
SM_LoadEnvironment(s, env) ==
    LET graph == SceneGraphs[env.id]
        keys  == {Key(l, i - 1) : l \in DOMAIN graph, i \in 1 .. MaxVisuals}
        made  == {k \in keys : k[2] < Len(graph[k[1]]) /\ graph[k[1]][k[2] + 1].makes}
        vis(k) == graph[k[1]][k[2] + 1]
    IN  Bind(SM_Clear(s), LAMBDA s1 :
        Bind([s1 EXCEPT
                 !.env = env,
                 !.calls = <<"getSceneGraph">>,
                 !.link_actors = [l \in DOMAIN graph |-> MadeKeys(l, graph[l], 1)],
                 !.visual_origins = [k \in made |-> vis(k).origin],
                 !.actors = [k \in made |->
                                [id      |-> ActorId("geom", env.id, k[1], k[2]),
                                 color   |-> IF vis(k).material = "none" THEN DefaultGray
                                             ELSE vis(k).material,
                                 ambient |-> 0,
                                 xform   |-> Identity]],
                 !.renderer = AddActors(@, SetToSeq({ActorId("geom", env.id, k[1], k[2]) :
                                                        k \in made}))],
             LAMBDA s2 : SM_UpdateFromState(s2, LinkTransforms(s2.env))))

\* update_joint_values: an error of setState is printed, and the state is
\* pushed and the window rendered all the same.
SM_UpdateJointValues(s, values) ==
    IF ~s.env.present THEN s
    ELSE Bind(IF SetStateRaises(values)
              THEN [s EXCEPT !.calls = Append(@, "setState raised")]
              ELSE [s EXCEPT !.env.q = values["j1"], !.calls = Append(@, "setState")],
              LAMBDA s1 :
                  Bind(SM_UpdateFromState(s1, LinkTransforms(s1.env)),
                       LAMBDA s2 : [s2 EXCEPT !.calls = Append(@, "Render")]))

\* get_tcp_pose: one setState per joint, and the state is left as set.
SM_GetTcpPose(s, values, tcp_link) ==
    IF ~s.env.present THEN s
    ELSE IF SetStateRaises(values) THEN [s EXCEPT !.calls = Append(@, "setState raised")]
    ELSE [s EXCEPT !.env.q = values["j1"], !.calls = Append(@, "setState")]

\* set_tcp_link.
SM_SetTcpLink(s, link_name) == [s EXCEPT !.tcp_link = link_name]

\* sample_workspace, one sample: setState([name], [val]) for each drawn value,
\* an error of it passed over, then the position of the TCP link if the state
\* has one.  The state is left as set.
SM_Sample(r, values, tcp) ==
    Bind([r.s EXCEPT !.env.q = IF "j1" \in DOMAIN values THEN values["j1"] ELSE @],
         LAMBDA s1 :
             [s |-> s1,
              points |-> IF tcp \in DOMAIN LinkTransforms(s1.env)
                         THEN Append(r.points, LinkTransforms(s1.env)[tcp][2])
                         ELSE r.points])

RECURSIVE SM_SampleLoop(_, _, _)
SM_SampleLoop(r, draws, tcp) ==
    IF draws = <<>> THEN r
    ELSE Bind(SM_Sample(r, Head(draws), tcp),
              LAMBDA r1 : SM_SampleLoop(r1, Tail(draws), tcp))

\* sample_workspace: `draws` holds the random joint values of each of the
\* n_samples samples; the result is the scene and the returned points.
SM_SampleWorkspace(s, draws, tcp_link) ==
    IF ~s.env.present THEN [s |-> s, points |-> <<>>]
    ELSE LET tcp == IF tcp_link /= "" THEN tcp_link ELSE s.tcp_link
         IN  IF tcp = "" THEN [s |-> s, points |-> <<>>]
             ELSE SM_SampleLoop([s |-> s, points |-> <<>>], draws, tcp)

\* show_frame.
SM_ShowFrame(s, link_name, visible) ==
    IF visible
    THEN IF link_name \notin DOMAIN s.frame_actors
         THEN LET id == ActorId("frame", "", link_name, 0)
                  at == IF s.env.present /\ link_name \in DOMAIN s.link_actors
                           /\ link_name \in DOMAIN LinkTransforms(s.env)
                        THEN LinkTransforms(s.env)[link_name]
                        ELSE Identity
                  axes == [id |-> id, visible |-> TRUE, xform |-> at]
              IN  [s EXCEPT !.frame_actors =
                                [n \in DOMAIN @ \cup {link_name} |->
                                    IF n = link_name THEN axes ELSE @[n]],
                            !.renderer = AddActor(@, id)]
         ELSE [s EXCEPT !.frame_actors[link_name].visible = TRUE]
    ELSE IF link_name \in DOMAIN s.frame_actors
         THEN [s EXCEPT !.frame_actors[link_name].visible = FALSE]
         ELSE s

\* clear_path.
SM_ClearPath(s, path_id) ==
    IF path_id \notin DOMAIN s.path_actors THEN s
    ELSE [s EXCEPT !.renderer = RemoveActors(@, s.path_actors[path_id]),
                   !.path_actors = [p \in DOMAIN @ \ {path_id} |-> @[p]]]

\* add_tool_path with show_waypoints: a line and one sphere per point, or
\* nothing for fewer than two points.
SM_AddToolPath(s, path_id, npoints) ==
    Bind(SM_ClearPath(s, path_id), LAMBDA s1 :
         LET made == IF npoints < 2 THEN <<>>
                     ELSE [n \in 1 .. npoints + 1 |-> ActorId("path", "", path_id, n)]
         IN  [s1 EXCEPT !.path_actors = [p \in DOMAIN @ \cup {path_id} |->
                                            IF p = path_id THEN made ELSE @[p]],
                        !.renderer = AddActors(@, made)])

\* show_workspace.
SM_ShowWorkspace(s, npoints) ==
    Bind(SM_ClearWorkspace(s), LAMBDA s1 :
         IF npoints = 0 THEN s1
         ELSE [s1 EXCEPT !.workspace_actor = TRUE,
                         !.renderer = AddActor(@, ActorId("workspace", "", "", 0))])

\* _clear_fk_actors.
SM_ClearFkActors(s, viz_id) ==
    IF viz_id \notin DOMAIN s.fk_actors THEN s
    ELSE [s EXCEPT !.renderer = RemoveActors(@, s.fk_actors[viz_id]),
                   !.fk_actors = [v \in DOMAIN @ \ {viz_id} |-> @[v]]]

\* show_tcp_marker.
SM_ShowTcpMarker(s) ==
    Bind(SM_ClearFkActors(s, "tcp_marker"), LAMBDA s1 :
         LET id == ActorId("fk", "", "tcp_marker", 0)
         IN  [s1 EXCEPT !.fk_actors = [v \in DOMAIN @ \cup {"tcp_marker"} |->
                                          IF v = "tcp_marker" THEN <<id>> ELSE @[v]],
                        !.renderer = AddActor(@, id)])

\* highlight_link.
SM_HighlightLink(s, link_name, highlight) ==
    IF link_name \notin DOMAIN s.link_actors THEN s
    ELSE LET mine == {s.link_actors[link_name][p] : p \in DOMAIN s.link_actors[link_name]}
         IN  [s EXCEPT !.actors =
                 [k \in DOMAIN @ |->
                     IF k \notin mine THEN @[k]
                     ELSE IF highlight
                     THEN [@[k] EXCEPT !.color = SelectColor, !.ambient = SelectAmbient]
                     ELSE [@[k] EXCEPT !.color = DefaultGray, !.ambient = 0]]]

\* A contact record: how many nearest points it has, whether it has a
\* normal, and its link names.
Contact(points, normal, link_names) ==
    [points |-> points, normal |-> normal, link_names |-> link_names]

\* _add_contact_point and _add_contact_normal.
CV_AddContactPoint(s) ==
    LET id == ActorId("contact", "", "", Len(s.contact_viz.contact_actors) + 1)
    IN  [s EXCEPT !.renderer = AddActor(@, id),
                  !.contact_viz.contact_actors = Append(@, id)]

CV_AddContactNormal(s) ==
    LET id == ActorId("normal", "", "", Len(s.contact_viz.normal_actors) + 1)
    IN  [s EXCEPT !.renderer = AddActor(@, id),
                  !.contact_viz.normal_actors = Append(@, id)]

\* ContactVisualizer._highlight_link.
CV_HighlightLink(s, link_name, keys) ==
    [s EXCEPT !.contact_viz.highlighted_links =
                  [l \in DOMAIN @ \cup {link_name} |->
                      IF l = link_name
                      THEN [keys |-> keys,
                            colors |-> [j \in DOMAIN keys |-> s.actors[keys[j]].color]]
                      ELSE @[l]],
              !.contact_viz.recolored = Append(@, link_name),
              !.actors = [k \in DOMAIN @ |->
                             IF \E j \in DOMAIN keys : keys[j] = k
                             THEN [@[k] EXCEPT !.color = CollisionColor,
                                               !.ambient = CollisionAmbient]
                             ELSE @[k]]]

\* The highlight of one link of a record without the test that the link is
\* not in the table yet.
CV_HighlightOnce_Again(s, link_name, link_actors) ==
    IF link_name \in DOMAIN link_actors
    THEN CV_HighlightLink(s, link_name, link_actors[link_name])
    ELSE s

\* The highlight of one link of a record: only a link the table does not
\* hold and the lookup knows.
CV_HighlightOnce(s, link_name, link_actors) ==
    IF link_name \notin DOMAIN s.contact_viz.highlighted_links
           /\ link_name \in DOMAIN link_actors
    THEN CV_HighlightLink(s, link_name, link_actors[link_name])
    ELSE s

\* The body of the loop of visualize_contacts for one record.
CV_ShowContact(s, contact, link_actors) ==
    Bind(IF contact.points >= 2 THEN CV_AddContactPoint(CV_AddContactPoint(s)) ELSE s,
         LAMBDA s1 :
    Bind(IF contact.normal /\ contact.points >= 1 THEN CV_AddContactNormal(s1) ELSE s1,
         LAMBDA s2 :
             IF DOMAIN link_actors /= {} /\ Len(contact.link_names) >= 2
             THEN Bind(CV_HighlightOnce(s2, contact.link_names[1], link_actors),
                       LAMBDA s3 : CV_HighlightOnce(s3, contact.link_names[2], link_actors))
             ELSE s2))

RECURSIVE CV_ShowContacts(_, _, _)
CV_ShowContacts(s, contact_results, link_actors) ==
    IF contact_results = <<>> THEN s
    ELSE Bind(CV_ShowContact(s, Head(contact_results), link_actors),
              LAMBDA s1 : CV_ShowContacts(s1, Tail(contact_results), link_actors))

\* visualize_contacts without the clear() it starts with.
CV_VisualizeContacts_Accumulates(s, contact_results, link_actors) ==
    CV_ShowContacts(s, contact_results, link_actors)

\* ContactVisualizer.visualize_contacts.
CV_VisualizeContacts(s, contact_results, link_actors) ==
    Bind(CV_Clear(s), LAMBDA s1 : CV_ShowContacts(s1, contact_results, link_actors))

\* SceneManager.visualize_contacts and clear_contacts.
SM_VisualizeContacts(s, contact_results) ==
    CV_VisualizeContacts(s, contact_results, s.link_actors)

SM_ClearContacts(s) == CV_Clear(s)

\* ---------------------------------------------------------- TesseractViewer

\* A path is a spelling and the file it names: Path.resolve() gives the one
\* absolute spelling of the file, and with_suffix(".srdf") the file next to it.
Resolve(p) == <<"abs", p[2]>>

NoPath == <<"none", 0>>

\* auto_srdf.exists(): every other file has an .srdf next to it.
HasSrdf(p) == p[2] % 2 = 1

\* The length the recent list is cut to.
RecentMax == 10

\* Environment(): a new object, not initialised; init makes it the
\* environment of a description.
NewEnvironment == [urdf |-> NoPath, srdf |-> NoPath, ok |-> FALSE]

NoViewerEnv == [urdf |-> NoPath, srdf |-> NoPath, ok |-> TRUE]

\* TesseractViewer.__init__: no environment, no paths, the recent list of the
\* settings, the environment the render widget shows, and the message boxes
\* and status messages of one operation.
ViewerInit ==
    [ env     |-> NoViewerEnv,
      paths   |-> <<NoPath, NoPath>>,
      recent  |-> <<>>,
      shown   |-> NoViewerEnv,
      dialogs |-> <<>>,
      status  |-> "" ]

\* list.remove(x): the first x leaves the list.
RECURSIVE ListRemove(_, _)
ListRemove(l, x) ==
    IF l = <<>> THEN l
    ELSE IF Head(l) = x THEN Tail(l)
    ELSE <<Head(l)>> \o ListRemove(Tail(l), x)

\* l[:n].
Slice(l, n) == SubSeq(l, 1, Min(n, Len(l)))

\* _add_recent without the removal of the path's earlier entry.
V_AddRecent_KeepsOld(v, path) ==
    [v EXCEPT !.recent = Slice(<<path>> \o v.recent, RecentMax)]

\* _add_recent.
V_AddRecent(v, path) ==
    Bind(IF \E i \in DOMAIN v.recent : v.recent[i] = path
         THEN ListRemove(v.recent, path) ELSE v.recent,
         LAMBDA recent : [v EXCEPT !.recent = Slice(<<path>> \o recent, RecentMax)])

\* load: the paths and a new Environment are stored first; init returning
\* False raises, a widget may raise while it takes the environment, and every
\* exception ends in a message box.  `auto` says whether the .srdf next to the
\* URDF exists.
V_Load(v, urdf, srdf, auto, outcome) ==
    LET srdf1 == IF srdf = NoPath /\ auto THEN <<"srdf", urdf[2]>> ELSE srdf IN
    Bind([v EXCEPT !.paths = <<urdf, srdf1>>, !.env = NewEnvironment], LAMBDA v1 :
         IF outcome = "init_false"
         THEN [v1 EXCEPT !.dialogs = Append(@, "critical")]
         ELSE Bind([v1 EXCEPT !.env = [urdf |-> urdf, srdf |-> srdf1, ok |-> TRUE]],
                   LAMBDA v2 :
                       Bind([v2 EXCEPT !.shown = v2.env], LAMBDA v3 :
                            IF outcome = "widget_raises"
                            THEN [v3 EXCEPT !.dialogs = Append(@, "critical")]
                            ELSE V_AddRecent([v3 EXCEPT !.status = "Loaded"],
                                             Resolve(urdf)))))

\* _open_recent: `exists` says whether the file is still there.
V_OpenRecent(v, idx, exists, outcome) ==
    IF idx >= Len(v.recent) THEN v
    ELSE LET path == v.recent[idx + 1] IN
         IF exists THEN V_Load(v, path, NoPath, HasSrdf(path), outcome)
         ELSE [v EXCEPT !.dialogs = Append(@, "warning"),
                        !.recent = ListRemove(@, path)]

\* _open_srdf: nothing without a URDF path, else a load of it with the SRDF.
V_OpenSrdf(v, srdf, outcome) ==
    IF v.paths[1] = NoPath THEN [v EXCEPT !.dialogs = Append(@, "information")]
    ELSE V_Load(v, v.paths[1], srdf, FALSE, outcome)

\* --------------------------------------------------------------- StateManager

\* A dict is the sequence of its <<key, value>> items in insertion order, a
\* string the sequence of its characters, a file the sequence of the
\* characters written to it.  A joint value is a float with one decimal,
\* counted in tenths, or an int.
PyFloat(n) == [int |-> FALSE, n |-> n]

PyInt(n) == [int |-> TRUE, n |-> n]

Keys(d) == {d[i][1] : i \in DOMAIN d}

\* d[k] = v.
Put(d, k, v) ==
    IF k \in Keys(d) THEN [i \in DOMAIN d |-> IF d[i][1] = k THEN <<k, v>> ELSE d[i]]
    ELSE Append(d, <<k, v>>)

\* d.pop(k, None).
Pop(d, k) == SelectSeq(d, LAMBDA item : item[1] /= k)

\* The decimal digits.
DigitChars == <<"0", "1", "2", "3", "4", "5", "6", "7", "8", "9">>

RECURSIVE Digits(_)
Digits(n) ==
    IF n < 10 THEN <<DigitChars[n + 1]>> ELSE Digits(n \div 10) \o <<DigitChars[(n % 10) + 1]>>

\* The text of a number cut to its whole part.
EncodeNumber_Whole(v) ==
    (IF v.n < 0 THEN <<"-">> ELSE <<>>)
        \o Digits(IF v.int THEN Abs(v.n) ELSE Abs(v.n) \div 10)

\* json's text of a number: int.__repr__, or float.__repr__ with its
\* fraction.
EncodeNumber(v) ==
    (IF v.n < 0 THEN <<"-">> ELSE <<>>)
        \o (IF v.int THEN Digits(Abs(v.n))
            ELSE Digits(Abs(v.n) \div 10) \o <<".">> \o Digits(Abs(v.n) % 10))

\* json's text of a character of a string: a quote and a backslash are
\* escaped, a character outside ASCII ("eacute" stands for U+00E9) is written
\* as \uXXXX.
EncodeChar(c) ==
    IF c = "\"" THEN <<"\\", "\"">>
    ELSE IF c = "\\" THEN <<"\\", "\\">>
    ELSE IF c = "eacute" THEN <<"\\", "u", "0", "0", "e", "9">>
    ELSE <<c>>

RECURSIVE EncodeChars(_)
EncodeChars(str) ==
    IF str = <<>> THEN <<>> ELSE EncodeChar(Head(str)) \o EncodeChars(Tail(str))

EncodeString(str) == <<"\"">> \o EncodeChars(str) \o <<"\"">>

\* The newline and the indent of json.dump(..., indent=2) at a nesting level.
NewLine(level) == <<"\n">> \o [i \in 1 .. 2 * level |-> " "]

\* The text of a dict of numbers at a nesting level.
RECURSIVE EncodeValueItems(_, _)
EncodeValueItems(d, level) ==
    IF d = <<>> THEN <<>>
    ELSE NewLine(level) \o EncodeString(d[1][1]) \o <<":", " ">> \o EncodeNumber(d[1][2])
             \o (IF Len(d) > 1 THEN <<",">> ELSE <<>>)
             \o EncodeValueItems(Tail(d), level)

EncodeValues(d, level) ==
    IF d = <<>> THEN <<"{", "}">>
    ELSE <<"{">> \o EncodeValueItems(d, level + 1) \o NewLine(level) \o <<"}">>

\* The text of the poses dict.
RECURSIVE EncodePoseItems(_)
EncodePoseItems(d) ==
    IF d = <<>> THEN <<>>
    ELSE NewLine(1) \o EncodeString(d[1][1]) \o <<":", " ">> \o EncodeValues(d[1][2], 1)
             \o (IF Len(d) > 1 THEN <<",">> ELSE <<>>)
             \o EncodePoseItems(Tail(d))

\* json.dump(self.poses, f, indent=2).
JsonDump(poses) ==
    IF poses = <<>> THEN <<"{", "}">>
    ELSE <<"{">> \o EncodePoseItems(poses) \o NewLine(0) \o <<"}">>

\* json.load: the decoder reads the text from a position and gives the value
\* read and the position after it.
Whitespace == {" ", "\n"}

RECURSIVE SkipWs(_, _)
SkipWs(t, i) == IF i <= Len(t) /\ t[i] \in Whitespace THEN SkipWs(t, i + 1) ELSE i

DigitValue(c) == CHOOSE k \in 0 .. 9 : DigitChars[k + 1] = c

IsDigit(t, i) == i <= Len(t) /\ \E k \in 1 .. 10 : DigitChars[k] = t[i]

\* The digits from a position on, as a number.
RECURSIVE DecodeDigits(_, _, _)
DecodeDigits(t, i, acc) ==
    IF IsDigit(t, i) THEN DecodeDigits(t, i + 1, 10 * acc + DigitValue(t[i]))
    ELSE [v |-> acc, i |-> i]

\* A number: digits alone give an int, digits with a fraction a float.
DecodeNumber(t, i) ==
    LET neg  == t[i] = "-"
        whole == DecodeDigits(t, IF neg THEN i + 1 ELSE i, 0)
        sign(n) == IF neg THEN 0 - n ELSE n
    IN  IF whole.i <= Len(t) /\ t[whole.i] = "."
        THEN LET frac == DecodeDigits(t, whole.i + 1, 0)
             IN  [v |-> PyFloat(sign(10 * whole.v + frac.v)), i |-> frac.i]
        ELSE [v |-> PyInt(sign(whole.v)), i |-> whole.i]

\* The characters of a string up to its closing quote, escapes undone.
RECURSIVE DecodeChars(_, _, _)
DecodeChars(t, i, acc) ==
    IF t[i] = "\"" THEN [v |-> acc, i |-> i + 1]
    ELSE IF t[i] = "\\"
         THEN IF t[i + 1] = "u"
              THEN DecodeChars(t, i + 6,
                               Append(acc, IF SubSeq(t, i + 2, i + 5) = <<"0", "0", "e", "9">>
                                           THEN "eacute" ELSE "?"))
              ELSE DecodeChars(t, i + 2, Append(acc, t[i + 1]))
         ELSE DecodeChars(t, i + 1, Append(acc, t[i]))

DecodeString(t, i) == DecodeChars(t, i + 1, <<>>)

\* The items of a dict of numbers, from the first key on.
RECURSIVE DecodeValueItems(_, _, _)
DecodeValueItems(t, i, acc) ==
    LET key   == DecodeString(t, i)
        colon == SkipWs(t, key.i)
        num   == DecodeNumber(t, SkipWs(t, colon + 1))
        next  == SkipWs(t, num.i)
        d     == Put(acc, key.v, num.v)
    IN  IF t[next] = "," THEN DecodeValueItems(t, SkipWs(t, next + 1), d)
        ELSE [v |-> d, i |-> next + 1]

DecodeValues(t, i) ==
    LET first == SkipWs(t, i + 1)
    IN  IF t[first] = "}" THEN [v |-> <<>>, i |-> first + 1]
        ELSE DecodeValueItems(t, first, <<>>)

\* The items of the poses dict.
RECURSIVE DecodePoseItems(_, _, _)
DecodePoseItems(t, i, acc) ==
    LET key   == DecodeString(t, i)
        colon == SkipWs(t, key.i)
        val   == DecodeValues(t, SkipWs(t, colon + 1))
        next  == SkipWs(t, val.i)
        d     == Put(acc, key.v, val.v)
    IN  IF t[next] = "," THEN DecodePoseItems(t, SkipWs(t, next + 1), d)
        ELSE [v |-> d, i |-> next + 1]

\* json.load(f).
JsonLoad(t) ==
    LET first == SkipWs(t, SkipWs(t, 1) + 1)
    IN  IF t[first] = "}" THEN <<>> ELSE DecodePoseItems(t, first, <<>>).v

\* StateManager.__init__, save_pose, delete_pose, clear.
StateManagerInit == [poses |-> <<>>]

ST_SavePose(m, name, values) == [m EXCEPT !.poses = Put(@, name, values)]

ST_DeletePose(m, name) == [m EXCEPT !.poses = Pop(@, name)]

ST_Clear(m) == [m EXCEPT !.poses = <<>>]

\* save_to_file: the text written to the file.
ST_SaveToFile(m) == JsonDump(m.poses)

\* load_from_file, from the text of the file.
ST_LoadFromFile(m, t) == [m EXCEPT !.poses = JsonLoad(t)]

\* ------------------------------------------------ GroupStatesEditorWidget
\* A text is a sequence of characters, a dict a sequence of <<key, value>>
\* items in insertion order, as for the StateManager.

\* ord(c), for the characters of the state names.
Ord(c) ==
    CASE c = " " -> 32
      [] c = "1" -> 49
      [] c = "2" -> 50
      [] c = "3" -> 51
      [] c = "4" -> 52
      [] c = "_" -> 95
      [] c = "a" -> 97
      [] c = "b" -> 98
      [] c = "e" -> 101
      [] c = "s" -> 115
      [] c = "t" -> 116

\* x < y for two texts.
RECURSIVE StrLess(_, _)
StrLess(x, y) ==
    IF y = <<>> THEN FALSE
    ELSE IF x = <<>> THEN TRUE
    ELSE IF Head(x) /= Head(y) THEN Ord(Head(x)) < Ord(Head(y))
    ELSE StrLess(Tail(x), Tail(y))

\* sorted(keys), for a set of texts.
RECURSIVE SortedNames(_)
SortedNames(names) ==
    IF names = {} THEN <<>>
    ELSE LET least == CHOOSE x \in names : \A y \in names \ {x} : StrLess(x, y)
         IN  <<least>> \o SortedNames(names \ {least})

\* text.strip().
RECURSIVE LStrip(_), RStrip(_)
LStrip(t) == IF t /= <<>> /\ Head(t) = " " THEN LStrip(Tail(t)) ELSE t

RStrip(t) ==
    IF t /= <<>> /\ t[Len(t)] = " " THEN RStrip(SubSeq(t, 1, Len(t) - 1)) ELSE t

Strip(t) == RStrip(LStrip(t))

\* d[k], for a key of d.
Get(d, k) == (CHOOSE item \in {d[i] : i \in DOMAIN d} : item[1] = k)[2]

\* The editor after construction: no groups, no states, an empty combo box
\* and an empty table with no current row.
EditorInit ==
    [groups |-> <<>>, states |-> <<>>, group |-> <<>>, table |-> <<>>,
     current_row |-> -1, emitted |-> <<>>]

\* _refresh_table: the table holds one row per state of the current group, in
\* the order of the names (the first column; the second one is a read-only
\* text of the values), and no current row.
E_RefreshTable(e) ==
    LET cleared == [e EXCEPT !.table = <<>>, !.current_row = -1]
    IN  IF e.group = <<>> \/ e.group \notin Keys(e.states) THEN cleared
        ELSE [cleared EXCEPT !.table = SortedNames(Keys(Get(e.states, e.group)))]

\* The combo box shows another text: currentTextChanged runs _on_group_changed.
E_OnGroupChanged(e, text) == E_RefreshTable([e EXCEPT !.group = text])

\* set_groups: the combo box is emptied and filled, and shows the first group.
E_SetGroups(e, groups) ==
    E_OnGroupChanged([e EXCEPT !.groups = groups],
                     IF groups = <<>> THEN <<>> ELSE groups[1])

\* set_states.
E_SetStates(e, states) == E_RefreshTable([e EXCEPT !.states = states])

\* _on_item_changed: the item of `row` and `column` holds `text` now.
E_OnItemChanged(e, row, column, text) ==
    IF column /= 0 \/ e.group = <<>> THEN e
    ELSE LET states    == Get(e.states, e.group)
             old_names == SortedNames(Keys(states))
         IN  IF row >= Len(old_names) THEN e
             ELSE LET old_name == old_names[row + 1]
                      new_name == Strip(text)
                  IN  IF new_name = <<>> \/ new_name = old_name THEN e
                      ELSE E_RefreshTable(
                               [e EXCEPT !.states =
                                   Put(e.states, e.group,
                                       Put(Pop(states, old_name), new_name,
                                           Get(states, old_name)))])

\* f"state_{i}".
StateName(i) == <<"s", "t", "a", "t", "e", "_">> \o Digits(i)

\* The first i from `i` on with state_i not a key of d.
RECURSIVE UniqueIndex(_, _)
UniqueIndex(d, i) == IF StateName(i) \in Keys(d) THEN UniqueIndex(d, i + 1) ELSE i

\* _on_add_state.
E_OnAddState(e) ==
    IF e.group = <<>> THEN e
    ELSE LET known  == IF e.group \in Keys(e.states) THEN e.states
                       ELSE Put(e.states, e.group, <<>>)
             states == Get(known, e.group)
             name   == StateName(UniqueIndex(states, 1))
         IN  E_RefreshTable(
                 [e EXCEPT !.states = Put(known, e.group, Put(states, name, <<>>)),
                           !.emitted = Append(@, <<"state_added", e.group, name, <<>>>>)])

\* _on_remove_state.
E_OnRemoveState(e) ==
    IF e.group = <<>> \/ e.group \notin Keys(e.states) \/ e.current_row < 0 THEN e
    ELSE LET states == Get(e.states, e.group)
             name   == SortedNames(Keys(states))[e.current_row + 1]
         IN  E_RefreshTable(
                 [e EXCEPT !.states = Put(e.states, e.group, Pop(states, name)),
                           !.emitted = Append(@, <<"state_removed", e.group, name>>)])

\* _on_apply_state.
E_OnApplyState(e) ==
    IF e.group = <<>> \/ e.group \notin Keys(e.states) \/ e.current_row < 0 THEN e
    ELSE LET name == SortedNames(Keys(Get(e.states, e.group)))[e.current_row + 1]
         IN  [e EXCEPT !.emitted = Append(@, <<"state_applied", e.group, name>>)]

\* ------------------------------------------------------------------ state

VARIABLES
    player,     \* the TrajectoryPlayerWidget
    playerOp,   \* the operation that produced the current player state
    joints,     \* the JointSliderWidget and its JointSliders
    jointsOp,   \* the operation that produced the current joint widget state
    fkik,       \* the FKIKWidget, with its own joint widget and Cartesian editor
    fkikOp,     \* the operation that produced the current FKIKWidget state
    scene,      \* the SceneManager with its ContactVisualizer and renderer
    sceneOp,    \* the operation that produced the current scene
    store,      \* a StateManager and the file it saves its poses to
    storeOp,    \* the operation that produced the current store
    viewer,     \* the TesseractViewer: its environment, paths and recent list
    viewerOp,   \* the operation that produced the current viewer state
    editor,     \* the GroupStatesEditorWidget
    editorOp    \* the operation that produced the current editor state

playerVars == <<player, playerOp>>

jointVars == <<joints, jointsOp>>

fkikVars == <<fkik, fkikOp>>

\* What an operation of one widget leaves alone: the other widgets.
sceneVars == <<scene, sceneOp>>

viewerVars == <<viewer, viewerOp>>

storeVars == <<store, storeOp>>

editorVars == <<editor, editorOp>>

appVars == <<viewerVars, storeVars, editorVars>>

notPlayerVars == <<jointVars, fkikVars, sceneVars, appVars>>

notJointVars == <<playerVars, fkikVars, sceneVars, appVars>>

notFkikVars == <<playerVars, jointVars, sceneVars, appVars>>

notSceneVars == <<playerVars, jointVars, fkikVars, appVars>>

widgetVars == <<playerVars, jointVars, fkikVars, sceneVars>>

notViewerVars == <<widgetVars, storeVars, editorVars>>

notStoreVars == <<widgetVars, viewerVars, editorVars>>

notEditorVars == <<widgetVars, viewerVars, storeVars>>

vars == <<widgetVars, appVars>>

\* An operation starts with an empty signal log.
Fresh(p) == [p EXCEPT !.emitted = <<>>]

\* The record of a player operation: its name and argument, and the cursor and
\* the playing flag it started from.
Op(name, arg) ==
    [op |-> name, arg |-> arg, prevFrame |-> player.frame, wasPlaying |-> player.playing]

\* The record of a joint widget operation: its name, the joint it is about and
\* the value it was given.
\* `names` is the key set handed to set_joints (empty for any other operation)
\* and prevNames the sliders the widget held when the operation started.
JOp(name, joint, val) ==
    [op |-> name, joint |-> joint, val |-> val, names |-> {},
     prevNames |-> DOMAIN joints.sliders]

\* The joint widget at the start of an operation: empty signal logs and
\* handler counts, of the widget and of each slider.
JFresh(w) ==
    [w EXCEPT !.emitted = <<>>,
              !.sliders = [n \in DOMAIN w.sliders |->
                              [w.sliders[n] EXCEPT !.emitted = <<>>, !.entered = 0]]]

\* The FKIKWidget at the start of an operation: empty signal logs and handler
\* counts, of the widget, of its joint widget and of its Cartesian editor.
FFresh(f) ==
    [f EXCEPT !.emitted = <<>>, !.fk_runs = 0, !.solves = 0, !.write_guard = FALSE,
              !.js = JFresh(f.js),
              !.cart = [f.cart EXCEPT !.emitted = <<>>, !.entered = 0]]

\* The solution of a request no solver answered.
NoSolution == [n \in {"j1", "j2"} |-> 0]

\* The record of an FKIKWidget operation: its name, the solver's answer if
\* the operation reached the solver, whether a slider it started with holds
\* another value now, and the emit_signal flag of set_joint_values.
FOp(name, oc, emit) ==
    [op |-> name,
     kind |-> IF fkik'.solves > 0 THEN oc.kind ELSE "-",
     sol |-> IF fkik'.solves > 0 THEN oc.sol ELSE NoSolution,
     moved |-> \E n \in DOMAIN fkik.js.sliders \cap DOMAIN fkik'.js.sliders :
                   S_Value(fkik'.js.sliders[n]) /= S_Value(fkik.js.sliders[n]),
     emit |-> emit]

\* The scene at the start of an operation: an empty call log.
SFresh(s) == [s EXCEPT !.calls = <<>>]

\* The colors of the geometry actors.
Colors(s) == [k \in DOMAIN s.actors |-> s.actors[k].color]

\* The record of a scene operation: its name, the link and flag of
\* highlight_link, whether setState raised, whether an actor that was there
\* before has another transform now, whether the renderer held an overlay of
\* every kind before, the number of contact records with two points and a
\* normal, and the markers and table entries there were before.  `run` and `base` follow a run of calls: "visualize" within
\* visualize_contacts calls that started with an empty table, "cleared" after
\* the clear that ends them, "highlight" within highlight_link(name, True)
\* calls on one link and "restored" after the highlight_link(name, False)
\* that ends them; base holds the colors before the run.
SOp(name, link, on, run) ==
    [op |-> name, link |-> link, on |-> on,
     raised |-> ("setState raised" \in {scene'.calls[i] : i \in DOMAIN scene'.calls}),
     moved |-> \E k \in DOMAIN scene.actors \cap DOMAIN scene'.actors :
                   scene'.actors[k].xform /= scene.actors[k].xform,
     had |-> /\ scene.env.present
             /\ {"geom", "frame", "path", "workspace", "fk", "contact", "normal"}
                    \subseteq {id[1] : id \in DOMAIN scene.renderer},
     full |-> 0,
     markers |-> Len(scene.contact_viz.contact_actors)
                     + Len(scene.contact_viz.normal_actors),
     undone |-> Cardinality(DOMAIN scene.contact_viz.highlighted_links),
     run |-> run,
     base |-> IF run = "none" THEN EmptyDict
              ELSE IF run = sceneOp.run \/ run \in {"cleared", "restored"} THEN sceneOp.base
              ELSE Colors(scene)]

\* The viewer at the start of an operation: no message box, no status message.
VFresh(v) == [v EXCEPT !.dialogs = <<>>, !.status = ""]

\* The record of a viewer operation: its name, the environment and the paths
\* of the viewer before it, whether
\* it ended in an error box, whether it was a load that went through, whether
\* a recent file was found missing, the files loaded so far with the latest
\* first, and the number of loads of files that were loaded before.
VOp(name, again) ==
    LET loaded == viewer'.status = "Loaded"
        path   == Resolve(viewer'.paths[1])
    IN  [op |-> name, prev |-> [env |-> viewer.env, paths |-> viewer.paths],
         failed |-> \E i \in DOMAIN viewer'.dialogs : viewer'.dialogs[i] = "critical",
         loaded |-> loaded,
         missing |-> \E i \in DOMAIN viewer'.dialogs : viewer'.dialogs[i] = "warning",
         mru |-> IF loaded THEN <<path>> \o SelectSeq(viewerOp.mru, LAMBDA x : x /= path)
                 ELSE viewerOp.mru,
         picks |-> viewerOp.picks + (IF again THEN 1 ELSE 0)]

Init ==
    /\ player = PlayerInit
    /\ playerOp = [op |-> "init", arg |-> 0, prevFrame |-> 0, wasPlaying |-> FALSE]
    /\ joints = JointsInit
    /\ jointsOp = [op |-> "init", joint |-> "-", val |-> 0, names |-> {}, prevNames |-> {}]
    /\ fkik = FkInit
    /\ fkikOp = [op |-> "init", kind |-> "-", sol |-> NoSolution,
                 moved |-> FALSE, emit |-> FALSE]
    /\ scene = SceneInit
    /\ sceneOp = [op |-> "init", link |-> "", on |-> FALSE, raised |-> FALSE,
                  moved |-> FALSE, had |-> FALSE, full |-> 0, markers |-> 0,
                  undone |-> 0, run |-> "none", base |-> EmptyDict]
    /\ store = [mgr |-> StateManagerInit, file |-> <<>>]
    /\ storeOp = [op |-> "init", loaded |-> StateManagerInit, saved |-> <<>>]
    /\ viewer = ViewerInit
    /\ viewerOp = [op |-> "init", prev |-> [env |-> NoViewerEnv, paths |-> <<NoPath, NoPath>>], failed |-> FALSE, loaded |-> FALSE,
                   missing |-> FALSE, mru |-> <<>>, picks |-> 0]
    /\ editor = EditorInit
    /\ editorOp = [op |-> "init", prev |-> <<>>, group |-> <<>>, old |-> <<>>, new |-> <<>>]

\* ------------------------------------------------ actions: trajectory player

Load ==
    \E t \in Trajectories :
        /\ player' = P_LoadTrajectory(Fresh(player), t)
        /\ playerOp' = Op("load", 0)
        /\ UNCHANGED notPlayerVars

\* The play/pause button.
PlayPause ==
    /\ player' = P_OnPlayPause(Fresh(player))
    /\ playerOp' = Op("play_pause", 0)
    /\ UNCHANGED notPlayerVars

Play ==
    /\ player' = P_Play(Fresh(player))
    /\ playerOp' = Op("play", 0)
    /\ UNCHANGED notPlayerVars

Pause ==
    /\ player' = P_Pause(Fresh(player))
    /\ playerOp' = Op("pause", 0)
    /\ UNCHANGED notPlayerVars

\* The stop button.
Stop ==
    /\ player' = P_OnStop(Fresh(player))
    /\ playerOp' = Op("stop", 0)
    /\ UNCHANGED notPlayerVars

\* The QTimer fires only while it is active.
Tick ==
    /\ player.timer_active
    /\ player' = P_OnTimer(Fresh(player))
    /\ playerOp' = Op("tick", 0)
    /\ UNCHANGED notPlayerVars

\* The user drags the scrubber to another position of its range.
Scrub ==
    \E v \in 0 .. player.slider_max :
        /\ v /= player.slider_value
        /\ player' = P_SliderSetValue(Fresh(player), v)
        /\ playerOp' = Op("scrub", v)
        /\ UNCHANGED notPlayerVars

SetFrame ==
    \E f \in (0 - SeekSlack) .. (player.frame_count + SeekSlack) :
        /\ player' = P_SetFrame(Fresh(player), f)
        /\ playerOp' = Op("set_frame", f)
        /\ UNCHANGED notPlayerVars

\* The user changes the speed spin box.
SpeedChanged ==
    \E s \in Speeds :
        /\ s /= player.speed
        /\ player' = P_OnSpeedChanged(Fresh(player), s)
        /\ playerOp' = Op("speed", s)
        /\ UNCHANGED notPlayerVars

NextPlayer ==
    \/ Load
    \/ PlayPause
    \/ Play
    \/ Pause
    \/ Stop
    \/ Tick
    \/ Scrub
    \/ SetFrame
    \/ SpeedChanged

SpecPlayer == Init /\ [][NextPlayer]_vars

\* ---------------------------------------------------- actions: joint sliders

\* The joints set_joints is called with.
JointNames == {"j1", "j2"}

\* A name no slider was built for.
UnknownName == "jx"

\* The joint limits <<lower, upper>>, in radian units: a range around zero
\* whose bounds no tenth of a degree rounds out of, one whose lower bound
\* does, one that excludes zero, and a joint that cannot move.
LimitPairs == {<<-4, 4>>, <<-5, 3>>, <<2, 6>>, <<3, 3>>}

\* The current values set_joints is called with.
InitValues == {0, MaxAbs}

\* The values set_value is called with.
InputValues == (0 - MaxAbs) .. MaxAbs

\* The values a set_values mapping carries.
MappingValues == {0 - MaxAbs, 0, 1}

\* The slider positions the user drags a slider to.
SliderStops == {0, 250, 500, 750, 1000}

\* The values the user can leave in the numeric field of slider s.
FieldValues(s) ==
    {k * DegStep : k \in (s.spin_min \div DegStep) .. (s.spin_max \div DegStep)}

\* The outcomes of one random.uniform(lower, upper) per slider.
RandomDraws(w) ==
    {d \in [DOMAIN w.sliders -> InputValues] :
        \A n \in DOMAIN w.sliders :
            w.sliders[n].lower <= d[n] /\ d[n] <= w.sliders[n].upper}

SetJoints ==
    \E dom \in SUBSET JointNames :
        \E lim \in [dom -> LimitPairs], init \in [dom -> InitValues] :
            /\ joints' = J_SetJoints(JFresh(joints),
                             [n \in dom |-> <<lim[n][1], lim[n][2], init[n]>>])
            /\ jointsOp' = [JOp("set_joints", "-", 0) EXCEPT !.names = dom]
            /\ UNCHANGED notJointVars

\* The user drags the slider of joint n.
UserSlider ==
    \E n \in DOMAIN joints.sliders, v \in SliderStops :
        /\ v /= joints.sliders[n].slider
        /\ LET w == JFresh(joints)
           IN  joints' = J_ControlChanged(w, n, S_SliderSetValue(w.sliders[n], v))
        /\ jointsOp' = JOp("user_slider", n, v)
        /\ UNCHANGED notJointVars

\* The user edits the numeric field of joint n.
UserField ==
    \E n \in DOMAIN joints.sliders :
        \E d \in FieldValues(joints.sliders[n]) :
            /\ d /= joints.sliders[n].spin
            /\ LET w == JFresh(joints)
               IN  joints' = J_ControlChanged(w, n, S_SpinSetValue(w.sliders[n], d))
            /\ jointsOp' = JOp("user_field", n, d)
            /\ UNCHANGED notJointVars

\* A caller sets one slider programmatically.
SetValue ==
    \E n \in DOMAIN joints.sliders, v \in InputValues :
        /\ LET w == JFresh(joints)
           IN  joints' = J_ControlChanged(w, n, S_SetValue(w.sliders[n], v))
        /\ jointsOp' = JOp("set_value", n, v)
        /\ UNCHANGED notJointVars

SetValues ==
    \E dom \in SUBSET (JointNames \cup {UnknownName}) :
        \E values \in [dom -> MappingValues] :
            /\ joints' = J_SetValues(JFresh(joints), values)
            /\ jointsOp' = JOp("set_values", "-", 0)
            /\ UNCHANGED notJointVars

\* The Zero All button.
ZeroAll ==
    /\ joints' = J_OnZeroAll(JFresh(joints))
    /\ jointsOp' = JOp("zero_all", "-", 0)
    /\ UNCHANGED notJointVars

\* The Random button.
Randomize ==
    \E draw \in RandomDraws(joints) :
        /\ joints' = J_OnRandom(JFresh(joints), draw)
        /\ jointsOp' = JOp("random", "-", 0)
        /\ UNCHANGED notJointVars

NextJoints ==
    \/ SetJoints
    \/ UserSlider
    \/ UserField
    \/ SetValue
    \/ SetValues
    \/ ZeroAll
    \/ Randomize

SpecJoints == Init /\ [][NextJoints]_vars

\* -------------------------------------------------------- actions: FKIKWidget

\* The environment of the loaded robot: one kinematic group over both joints,
\* a state that has a transform for the tool link.
RobotEnv ==
    [present |-> TRUE, groups |-> {"manipulator"}, links |-> {"base_link", "tool0"},
     state |-> [n \in JointNames |-> 0]]

\* The joints FKIKWidget.set_joints is called with, <<lower, upper, value>>:
\* the robot's, or the first of them only.  The second cannot move.
FkJoints == [j1 |-> <<-4, 4, 0>>, j2 |-> <<3, 3, 3>>]

\* The slider positions the user drags a joint slider to, and the value the
\* user leaves in a numeric field.
FkSliderStops == {0, 1000}

FkFieldValues == {DegStep}

\* The mappings set_joint_values is called with: one joint, both with a value
\* outside the limits, one with a name no slider was built for.
FkMappings ==
    { [n \in {"j1"} |-> 3],
      [n \in JointNames |-> IF n = "j1" THEN 0 - MaxAbs ELSE 3],
      [n \in {"j1", UnknownName} |-> 3] }

\* The <<env, group_name, tcp_link>> set_environment is called with: the
\* robot's, no group and link, a group or a link the environment does not
\* have, no environment.
FkTargets ==
    { <<RobotEnv, "manipulator", "tool0">>, <<RobotEnv, "", "">>,
      <<RobotEnv, "gripper", "tool0">>, <<RobotEnv, "manipulator", "flange">>,
      <<NoEnv, "manipulator", "tool0">> }

\* The first solution the solver returns: inside every joint's limits, or
\* outside them.
Solutions == {[j1 |-> 0 - MaxAbs, j2 |-> 1], [j1 |-> 3, j2 |-> 3]}

\* The solver's answers.
Solved == {Outcome("solution", sol) : sol \in Solutions}

Outcomes == {Outcome(k, NoSolution) : k \in {"raise", "no_solution"}} \cup Solved

\* The slider positions and pose values the user sets in the Cartesian editor.
CartAxes == {"x"}

CartStops == {1000}

CartFields == {12345}

FSetEnvironment ==
    \E t \in FkTargets, oc \in Solved :
        /\ fkik' = F_SetEnvironment(FFresh(fkik), t[1], t[2], t[3], oc)
        /\ fkikOp' = FOp("set_environment", oc, FALSE)
        /\ UNCHANGED notFkikVars

FSetJoints ==
    \E dom \in {{"j1"}, JointNames}, oc \in Solved :
        /\ fkik' = F_SetJoints(FFresh(fkik), [n \in dom |-> FkJoints[n]], oc)
        /\ fkikOp' = FOp("set_joints", oc, FALSE)
        /\ UNCHANGED notFkikVars

FSetJointValues ==
    \E values \in FkMappings, emit \in BOOLEAN, oc \in Solved :
        /\ fkik' = F_SetJointValues(FFresh(fkik), values, emit, oc)
        /\ fkikOp' = FOp("set_joint_values", oc, emit)
        /\ UNCHANGED notFkikVars

\* The user drags the slider of joint n.
FUserSlider ==
    \E n \in DOMAIN fkik.js.sliders, v \in FkSliderStops, oc \in Solved :
        /\ v /= fkik.js.sliders[n].slider
        /\ LET f == FFresh(fkik)
               w == J_ControlChanged(f.js, n, S_SliderSetValue(f.js.sliders[n], v))
           IN  fkik' = F_JointWidgetChanged(f, w, oc)
        /\ fkikOp' = FOp("user_slider", oc, FALSE)
        /\ UNCHANGED notFkikVars

\* The user edits the numeric field of joint n.
FUserField ==
    \E n \in DOMAIN fkik.js.sliders, oc \in Solved :
        \E d \in FieldValues(fkik.js.sliders[n]) \cap FkFieldValues :
            /\ d /= fkik.js.sliders[n].spin
            /\ LET f == FFresh(fkik)
                   w == J_ControlChanged(f.js, n, S_SpinSetValue(f.js.sliders[n], d))
               IN  fkik' = F_JointWidgetChanged(f, w, oc)
            /\ fkikOp' = FOp("user_field", oc, FALSE)
            /\ UNCHANGED notFkikVars

\* The Zero All button of the joint widget.
FZeroAll ==
    \E oc \in Solved :
        /\ LET f == FFresh(fkik)
           IN  fkik' = F_JointWidgetChanged(f, J_OnZeroAll(f.js), oc)
        /\ fkikOp' = FOp("zero_all", oc, FALSE)
        /\ UNCHANGED notFkikVars

\* The user drags a slider of the Cartesian editor.
FUserCartSlider ==
    \E a \in CartAxes, v \in CartStops, oc \in Outcomes :
        /\ v /= fkik.cart.slider[a]
        /\ LET f == FFresh(fkik)
           IN  fkik' = F_CartesianChanged(f, C_SliderSetValue(f.cart, a, v), oc)
        /\ fkikOp' = FOp("cart_slider", oc, FALSE)
        /\ UNCHANGED notFkikVars

\* The user edits a numeric field of the Cartesian editor.
FUserCartSpin ==
    \E a \in CartAxes, v \in CartFields, oc \in Outcomes :
        /\ RoundFine(v) /= fkik.cart.spin[a]
        /\ LET f == FFresh(fkik)
           IN  fkik' = F_CartesianChanged(f, C_SpinSetValue(f.cart, a, v), oc)
        /\ fkikOp' = FOp("cart_spin", oc, FALSE)
        /\ UNCHANGED notFkikVars

NextFKIK ==
    \/ FSetEnvironment
    \/ FSetJoints
    \/ FSetJointValues
    \/ FUserSlider
    \/ FUserField
    \/ FZeroAll
    \/ FUserCartSlider
    \/ FUserCartSpin

SpecFKIK == Init /\ [][NextFKIK]_vars

\* ------------------------------------------------------ actions: the scene

\* The environments load_environment is called with, in their initial state.
SceneEnvs == {Env(id, 0) : id \in DOMAIN SceneGraphs}

\* The joint values update_joint_values and get_tcp_pose are called with: a
\* value of the joint, or a joint the environment does not have.
JointUpdates == {[n \in {"j1"} |-> q] : q \in 1 .. 2} \cup {[n \in {UnknownName} |-> 1]}

\* Contact records: one with two nearest points, a normal and two links, and
\* one with none of them.
FullContact(a, b) == Contact(2, TRUE, <<a, b>>)

BareContact == Contact(0, FALSE, <<>>)

\* The results of a collision check: none, one contact, two contacts of the
\* same links, a record without points before a contact with a link that has
\* no actors.
ContactResults ==
    { <<>>,
      <<FullContact("base", "arm")>>,
      <<FullContact("base", "arm"), FullContact("arm", "base")>>,
      <<BareContact, FullContact("arm", "table")>> }

\* The number of records of a result with two points and a normal.
FullRecords(results) ==
    Cardinality({i \in DOMAIN results : results[i].points >= 2 /\ results[i].normal})

SLoadEnvironment ==
    \E env \in SceneEnvs :
        /\ scene' = SM_LoadEnvironment(SFresh(scene), env)
        /\ sceneOp' = SOp("load_environment", "", FALSE, "none")
        /\ UNCHANGED notSceneVars

SUpdateJointValues ==
    \E values \in JointUpdates :
        /\ scene' = SM_UpdateJointValues(SFresh(scene), values)
        /\ sceneOp' = SOp("update_joint_values", "", FALSE, "none")
        /\ UNCHANGED notSceneVars

SGetTcpPose ==
    \E values \in JointUpdates :
        /\ scene' = SM_GetTcpPose(SFresh(scene), values, "arm")
        /\ sceneOp' = SOp("get_tcp_pose", "", FALSE, "none")
        /\ UNCHANGED notSceneVars

SShowFrame ==
    \E visible \in BOOLEAN :
        /\ scene' = SM_ShowFrame(SFresh(scene), "arm", visible)
        /\ sceneOp' = SOp("show_frame", "arm", visible, "none")
        /\ UNCHANGED notSceneVars

SAddToolPath ==
    /\ scene' = SM_AddToolPath(SFresh(scene), "path", 2)
    /\ sceneOp' = SOp("add_tool_path", "", FALSE, "none")
    /\ UNCHANGED notSceneVars

SShowWorkspace ==
    /\ scene' = SM_ShowWorkspace(SFresh(scene), 1)
    /\ sceneOp' = SOp("show_workspace", "", FALSE, "none")
    /\ UNCHANGED notSceneVars

SShowTcpMarker ==
    /\ scene' = SM_ShowTcpMarker(SFresh(scene))
    /\ sceneOp' = SOp("show_tcp_marker", "", FALSE, "none")
    /\ UNCHANGED notSceneVars

\* A collision check found one contact.
SShowContact ==
    /\ scene' = SM_VisualizeContacts(SFresh(scene), <<FullContact("base", "arm")>>)
    /\ sceneOp' = [SOp("visualize_contacts", "", FALSE, "none") EXCEPT !.full = 1]
    /\ UNCHANGED notSceneVars

NextScene ==
    \/ SLoadEnvironment
    \/ SUpdateJointValues
    \/ SGetTcpPose
    \/ SShowFrame
    \/ SAddToolPath
    \/ SShowWorkspace
    \/ SShowTcpMarker
    \/ SShowContact

SpecScene == Init /\ [][NextScene]_vars

\* ------------------------------------- actions: contacts and link highlight

\* The links highlight_link is called with: the robot's, and one no
\* environment has.
HighlightNames == {"base", "arm", "tool9"}

KLoadEnvironment ==
    \E env \in SceneEnvs :
        /\ scene' = SM_LoadEnvironment(SFresh(scene), env)
        /\ sceneOp' = SOp("load_environment", "", FALSE, "none")
        /\ UNCHANGED notSceneVars

KVisualizeContacts ==
    \E results \in ContactResults :
        /\ scene' = SM_VisualizeContacts(SFresh(scene), results)
        /\ sceneOp' = [SOp("visualize_contacts", "", FALSE,
                           IF sceneOp.run = "visualize"
                                  \/ DOMAIN scene.contact_viz.highlighted_links = {}
                           THEN "visualize" ELSE "none")
                          EXCEPT !.full = FullRecords(results)]
        /\ UNCHANGED notSceneVars

KClearContacts ==
    /\ scene' = SM_ClearContacts(SFresh(scene))
    /\ sceneOp' = SOp("clear_contacts", "", FALSE,
                      IF sceneOp.run = "visualize" THEN "cleared" ELSE "none")
    /\ UNCHANGED notSceneVars

KHighlightLink ==
    \E name \in HighlightNames, on \in BOOLEAN :
        /\ scene' = SM_HighlightLink(SFresh(scene), name, on)
        /\ sceneOp' = SOp("highlight_link", name, on,
                          IF on
                          THEN IF sceneOp.run = "highlight" /\ sceneOp.link /= name
                               THEN "none" ELSE "highlight"
                          ELSE IF sceneOp.run = "highlight" /\ sceneOp.link = name
                               THEN "restored" ELSE "none")
        /\ UNCHANGED notSceneVars

NextContacts ==
    \/ KLoadEnvironment
    \/ KVisualizeContacts
    \/ KClearContacts
    \/ KHighlightLink

SpecContacts == Init /\ [][NextContacts]_vars

\* ------------------------------------------- actions: every guarded widget

\* The trajectory player and the FKIKWidget, with its joint sliders and its
\* Cartesian editor, are separate objects: each is driven on its own, the
\* other one as it was constructed.
NextGuards ==
    \/ fkikOp.op = "init" /\ NextPlayer
    \/ playerOp.op = "init" /\ NextFKIK

SpecGuards == Init /\ [][NextGuards]_vars

\* --------------------------------- actions: highlight and contacts, one link

\* The link that is selected, unselected and in contact, in any order.  The
\* record of an operation holds the last highlight_link call on the link
\* ("on", "off", or "none" since the load) and the last contact call
\* ("visualize", "clear", or "none" since the load).
SharedLink == "base"

XLoadEnvironment ==
    \E env \in SceneEnvs :
        /\ scene' = SM_LoadEnvironment(SFresh(scene), env)
        /\ sceneOp' = [op |-> "load_environment", hl |-> "none", ct |-> "none"]
        /\ UNCHANGED notSceneVars

XHighlightLink ==
    \E name \in {SharedLink, "arm"}, on \in BOOLEAN :
        /\ sceneOp.op /= "init"
        /\ scene' = SM_HighlightLink(SFresh(scene), name, on)
        /\ sceneOp' = [op |-> "highlight_link",
                       hl |-> IF name /= SharedLink THEN sceneOp.hl
                              ELSE IF on THEN "on" ELSE "off",
                       ct |-> sceneOp.ct]
        /\ UNCHANGED notSceneVars

XVisualizeContacts ==
    \E results \in ContactResults :
        /\ sceneOp.op /= "init"
        /\ scene' = SM_VisualizeContacts(SFresh(scene), results)
        /\ sceneOp' = [op |-> "visualize_contacts", hl |-> sceneOp.hl, ct |-> "visualize"]
        /\ UNCHANGED notSceneVars

XClearContacts ==
    /\ sceneOp.op /= "init"
    /\ scene' = SM_ClearContacts(SFresh(scene))
    /\ sceneOp' = [op |-> "clear_contacts", hl |-> sceneOp.hl, ct |-> "clear"]
    /\ UNCHANGED notSceneVars

NextInterleaved ==
    \/ XLoadEnvironment
    \/ XHighlightLink
    \/ XVisualizeContacts
    \/ XClearContacts

SpecInterleaved == Init /\ [][NextInterleaved]_vars

\* ------------------------------------------------ actions: workspace sampling

\* The joint names sample_workspace is called with, and the limits of j1; the
\* values drawn for one sample lie within the limits.
SampleNames == {{"j1"}, {"j1", UnknownName}, {}}

SampleLimits == <<1, 2>>

SampleValues(names) ==
    {v \in [names -> SampleLimits[1] .. SampleLimits[2]] :
        UnknownName \in names => v[UnknownName] = SampleLimits[1]}

\* The draws of n samples.
SampleDraws(names, n) == [1 .. n -> SampleValues(names)]

\* The tcp_link argument: none, a link of the robot, a link no state has.
TcpLinks == {"", "arm", "tool9"}

WSetTcpLink ==
    \E link \in {"", "arm"} :
        /\ scene' = SM_SetTcpLink(SFresh(scene), link)
        /\ sceneOp' = SOp("set_tcp_link", link, FALSE, "none")
        /\ UNCHANGED notSceneVars

\* sample_workspace; the record of it holds the joint value before the call,
\* n_samples, the TCP link used and the returned points.
WSampleWorkspace ==
    \E names \in SampleNames, n \in 0 .. MaxSamples, tcp_link \in TcpLinks :
        \E draws \in SampleDraws(names, n) :
            LET r == SM_SampleWorkspace(SFresh(scene), draws, tcp_link)
            IN  /\ scene' = r.s
                /\ sceneOp' = [op |-> "sample_workspace", q |-> scene.env.q,
                               present |-> scene.env.present, nnames |-> Cardinality(names),
                               tcp |-> IF tcp_link /= "" THEN tcp_link ELSE scene.tcp_link,
                               n |-> n, points |-> r.points]
                /\ UNCHANGED notSceneVars

NextWorkspace ==
    \/ SLoadEnvironment
    \/ SUpdateJointValues
    \/ WSetTcpLink
    \/ WSampleWorkspace

SpecWorkspace == Init /\ [][NextWorkspace]_vars

\* ------------------------------------------------------ actions: the viewer

\* How a load ends: it goes through, init returns False, a widget raises
\* while it takes the environment.
LoadOutcomes == {"ok", "init_false", "widget_raises"}

\* The rows of the recent menu that are picked.
RecentPicks == {0, 2, RecentMax - 1}

\* A file that was not loaded before is opened; every other file has an
\* .srdf next to it.
VLoadNew ==
    \E outcome \in LoadOutcomes :
        /\ Len(viewerOp.mru) < MaxPaths
        /\ viewer' = V_Load(VFresh(viewer), <<"abs", Len(viewerOp.mru) + 1>>, NoPath,
                            HasSrdf(<<"abs", Len(viewerOp.mru) + 1>>), outcome)
        /\ viewerOp' = VOp("load", FALSE)
        /\ UNCHANGED notViewerVars

\* A file that was loaded before is opened under another spelling of its path.
VLoadAgain ==
    /\ viewerOp.picks < MaxPicks
    /\ Len(viewerOp.mru) >= 1
    /\ viewer' = V_Load(VFresh(viewer), <<"rel", 1>>, NoPath, HasSrdf(<<"rel", 1>>), "ok")
        /\ viewerOp' = VOp("load", TRUE)
        /\ UNCHANGED notViewerVars

VOpenRecent ==
    \E idx \in RecentPicks, exists \in BOOLEAN, outcome \in {"ok", "init_false"} :
        /\ viewerOp.picks < MaxPicks
        /\ viewer' = V_OpenRecent(VFresh(viewer), idx, exists, outcome)
        /\ viewerOp' = VOp("open_recent", TRUE)
        /\ UNCHANGED notViewerVars

VOpenSrdf ==
    \E outcome \in {"ok", "init_false"} :
        /\ viewerOp.picks < MaxPicks
        /\ viewer' = V_OpenSrdf(VFresh(viewer), <<"srdf", 0>>, outcome)
        /\ viewerOp' = VOp("open_srdf", TRUE)
        /\ UNCHANGED notViewerVars

NextViewer ==
    \/ VLoadNew
    \/ VLoadAgain
    \/ VOpenRecent
    \/ VOpenSrdf

SpecViewer == Init /\ [][NextViewer]_vars

\* ----------------------------------------------------- actions: named poses

\* Pose names: a plain one, one with a quote, one with a backslash and a
\* character outside ASCII.
PoseNames == {<<"h">>, <<"a", "\"">>, <<"\\", "eacute">>}

\* Joint values of a pose: none, a negative float and an int, a float of two
\* digits and a zero.
PoseValues ==
    { <<>>,
      <<<<(<<"j", "1">>), PyFloat(-15)>>, <<(<<"j", "2">>), PyInt(1)>>>>,
      <<<<(<<"j", "2">>), PyFloat(120)>>, <<(<<"j", "1">>), PyFloat(0)>>>> }

\* The record of a store operation: its name, the StateManager a file was
\* loaded into, and the poses there were when the file was written.
TOp(name, loaded, saved) == [op |-> name, loaded |-> loaded, saved |-> saved]

TSavePose ==
    \E name \in PoseNames, values \in PoseValues :
        /\ name \in Keys(store.mgr.poses) \/ Len(store.mgr.poses) < MaxPoses
        /\ store' = [store EXCEPT !.mgr = ST_SavePose(@, name, values)]
        /\ storeOp' = TOp("save_pose", StateManagerInit, storeOp.saved)
        /\ UNCHANGED notStoreVars

TDeletePose ==
    \E name \in PoseNames :
        /\ store' = [store EXCEPT !.mgr = ST_DeletePose(@, name)]
        /\ storeOp' = TOp("delete_pose", StateManagerInit, storeOp.saved)
        /\ UNCHANGED notStoreVars

TClear ==
    /\ store' = [store EXCEPT !.mgr = ST_Clear(@)]
    /\ storeOp' = TOp("clear", StateManagerInit, storeOp.saved)
    /\ UNCHANGED notStoreVars

TSaveToFile ==
    /\ store' = [store EXCEPT !.file = ST_SaveToFile(store.mgr)]
    /\ storeOp' = TOp("save_to_file", StateManagerInit, store.mgr.poses)
    /\ UNCHANGED notStoreVars

\* A fresh StateManager loads the file.
TLoadFresh ==
    /\ store.file /= <<>>
    /\ store' = store
    /\ storeOp' = TOp("load_fresh", ST_LoadFromFile(StateManagerInit, store.file),
                      storeOp.saved)
    /\ UNCHANGED notStoreVars

\* The StateManager loads its file.
TLoadFromFile ==
    /\ store.file /= <<>>
    /\ store' = [store EXCEPT !.mgr = ST_LoadFromFile(@, store.file)]
    /\ storeOp' = TOp("load_from_file", StateManagerInit, storeOp.saved)
    /\ UNCHANGED notStoreVars

NextStore ==
    \/ TSavePose
    \/ TDeletePose
    \/ TClear
    \/ TSaveToFile
    \/ TLoadFresh
    \/ TLoadFromFile

SpecStore == Init /\ [][NextStore]_vars

\* ------------------------------------------------- actions: group states

\* The groups handed to set_groups.
EditorGroups == {<<>>, <<<<"a">>>>, <<<<"a">>, <<"b">>>>}

\* The states handed to set_states: none, two states of group a, and states
\* of both groups with a generated name among them.
EditorStates ==
    { <<>>,
      << <<<<"a">>, << <<<<"a">>, <<<<"j1", 0>>>>>>, <<<<"b">>, <<<<"j1", 5>>>>>> >> >> >>,
      << <<<<"a">>, << <<<<"b">>, <<<<"j1", 5>>>>>>, <<StateName(1), <<>>>> >> >>,
         <<<<"b">>, << <<<<"a">>, <<<<"j1", 0>>>>>> >> >> >> }

\* The texts typed into a name cell.
EditorTexts == {<<" ">>, <<"a">>, <<" ", "b", " ">>, <<"a", "b">>}

\* The record of an editor operation: its name, the group shown and its
\* states before the operation, and the old and the new name of a rename.
EOp(name, old, new) ==
    [op |-> name,
     prev |-> IF editor.group \in Keys(editor.states)
              THEN Get(editor.states, editor.group) ELSE <<>>,
     group |-> editor.group, old |-> old, new |-> new]

\* The editor at the start of an operation: an empty signal log.
EFresh(e) == [e EXCEPT !.emitted = <<>>]

ESetGroups ==
    \E groups \in EditorGroups :
        /\ editor' = E_SetGroups(EFresh(editor), groups)
        /\ editorOp' = EOp("set_groups", <<>>, <<>>)
        /\ UNCHANGED notEditorVars

ESetStates ==
    \E states \in EditorStates :
        /\ editor' = E_SetStates(EFresh(editor), states)
        /\ editorOp' = EOp("set_states", <<>>, <<>>)
        /\ UNCHANGED notEditorVars

\* The user picks a group in the combo box.
EPickGroup ==
    \E i \in DOMAIN editor.groups :
        /\ editor.groups[i] /= editor.group
        /\ editor' = E_OnGroupChanged(EFresh(editor), editor.groups[i])
        /\ editorOp' = EOp("pick_group", <<>>, <<>>)
        /\ UNCHANGED notEditorVars

\* The user clicks a row of the table.
ESelectRow ==
    \E row \in 0 .. Len(editor.table) - 1 :
        /\ editor' = [EFresh(editor) EXCEPT !.current_row = row]
        /\ editorOp' = EOp("select_row", <<>>, <<>>)
        /\ UNCHANGED notEditorVars

\* The user edits the name cell of a row: the cell holds the typed text and
\* is the current one when itemChanged runs _on_item_changed.
EEditName ==
    \E row \in 0 .. Len(editor.table) - 1, text \in EditorTexts :
        LET old   == SortedNames(Keys(Get(editor.states, editor.group)))[row + 1]
            typed == [EFresh(editor) EXCEPT !.table[row + 1] = text,
                                            !.current_row = row]
        IN  /\ text /= editor.table[row + 1]
            /\ editor' = E_OnItemChanged(typed, row, 0, text)
            /\ editorOp' = EOp(IF Strip(text) \in {<<>>, old} THEN "edit_ignored"
                               ELSE "rename", old, Strip(text))
            /\ UNCHANGED notEditorVars

EAddState ==
    /\ editor.group \in Keys(editor.states) =>
           Len(Get(editor.states, editor.group)) < MaxStates
    /\ Len(editor.states) < MaxStates
    /\ editor' = E_OnAddState(EFresh(editor))
    /\ editorOp' = EOp("add_state", <<>>, <<>>)
    /\ UNCHANGED notEditorVars

ERemoveState ==
    /\ editor' = E_OnRemoveState(EFresh(editor))
    /\ editorOp' = EOp("remove_state", <<>>, <<>>)
    /\ UNCHANGED notEditorVars

EApplyState ==
    /\ editor' = E_OnApplyState(EFresh(editor))
    /\ editorOp' = EOp("apply_state", <<>>, <<>>)
    /\ UNCHANGED notEditorVars

NextEditor ==
    \/ ESetGroups
    \/ ESetStates
    \/ EPickGroup
    \/ ESelectRow
    \/ EEditName
    \/ EAddState
    \/ ERemoveState
    \/ EApplyState

SpecEditor == Init /\ [][NextEditor]_vars

\* ------------------------------------------------ claims: trajectory player

\* Clamp of a requested frame into [0, N-1].
ClampFrame(f, n) == Max(0, Min(n - 1, f))

\* C1: after stop(), from whatever state it was called in, the player is not
\* playing, its timer is stopped, the cursor and the scrubber are at 0, and the
\* operation emitted exactly frameChanged(0) followed by stateChanged("stopped").
C1_StopResets ==
    playerOp.op = "stop" =>
        /\ ~player.playing
        /\ ~player.timer_active
        /\ player.frame = 0
        /\ player.emitted = <<FrameEvent(0), StateEvent("stopped")>>

\* stop() was called while playing with the cursor past frame 0.
C1_Witness ==
    /\ playerOp.op = "stop"
    /\ playerOp.wasPlaying
    /\ playerOp.prevFrame > 0
    /\ player.frame = 0

C3_SeekClamps ==
    (playerOp.op = "set_frame" /\ player.frame_count >= 1) =>
        /\ player.frame = ClampFrame(playerOp.arg, player.frame_count)
        /\ player.emitted = <<FrameEvent(player.frame)>>

\* C3 amended: set_frame(frame) with 0 <= frame < N sets the cursor to frame
\* and emits one frameChanged(frame); with any other frame it leaves the cursor
\* where it was and emits nothing.
C3_SeekInRangeOrIgnored ==
    (playerOp.op = "set_frame" /\ player.frame_count >= 1) =>
        IF 0 <= playerOp.arg /\ playerOp.arg < player.frame_count
        THEN /\ player.frame = playerOp.arg
             /\ player.slider_value = playerOp.arg
             /\ player.emitted = <<FrameEvent(playerOp.arg)>>
        ELSE /\ player.frame = playerOp.prevFrame
             /\ player.emitted = <<>>

\* set_frame moved the cursor to another frame of the trajectory.
C3_Witness ==
    /\ playerOp.op = "set_frame"
    /\ player.frame_count >= 2
    /\ playerOp.arg = player.frame_count - 1
    /\ playerOp.prevFrame /= playerOp.arg
    /\ player.frame = playerOp.arg

\* C4: the scrubber's range is [0, max(0, N-1)] for the N waypoints loaded, a
\* load leaves the cursor at 0, and the cursor is within the range in every
\* state reached by play, pause, stop, ticks, seeks and scrubber moves.
C4_CursorInRange ==
    /\ player.frame_count = Len(player.trajectory.pts)
    /\ player.slider_max = Max(0, player.frame_count - 1)
    /\ 0 <= player.frame
    /\ player.frame <= player.slider_max
    /\ playerOp.op = "load" => player.frame = 0

\* The cursor was scrubbed to the last frame of a trajectory of three or more.
C4_Witness ==
    /\ playerOp.op = "scrub"
    /\ player.slider_max >= 2
    /\ player.frame = player.slider_max

\* C5: get_waypoint() is the waypoint at the cursor whenever a non-empty
\* trajectory is loaded, so set_frame(k) with 0 <= k < N is followed by waypoint
\* k, it is None when no trajectory or an empty one is loaded, and only
\* load_trajectory changes the stored waypoint sequence.
C5_WaypointAtCursor ==
    /\ [](/\ Truthy(player.trajectory) =>
               /\ player.frame + 1 \in DOMAIN player.trajectory.pts
               /\ P_GetWaypoint(player) = player.trajectory.pts[player.frame + 1]
          /\ ~Truthy(player.trajectory) => P_GetWaypoint(player) = None
          /\ (/\ playerOp.op = "set_frame"
              /\ 0 <= playerOp.arg
              /\ playerOp.arg < Len(player.trajectory.pts)) =>
                 P_GetWaypoint(player) = player.trajectory.pts[playerOp.arg + 1])
    /\ [][playerOp'.op /= "load" => player'.trajectory = player.trajectory]_vars

\* set_frame(k) reached the second waypoint of a trajectory whose waypoints
\* differ, and get_waypoint() returns it.
C5_Witness ==
    /\ playerOp.op = "set_frame"
    /\ playerOp.arg = 1
    /\ player.trajectory.pts = <<"wa", "wb">>
    /\ P_GetWaypoint(player) = "wb"

\* ---------------------------------------------------- claims: joint sliders

\* The value nearest to v within [lower, upper].
Nearest(lower, upper, v) == IF v < lower THEN lower ELSE IF v > upper THEN upper ELSE v

\* C6: after any sequence of slider moves, numeric-field edits, set_value,
\* set_values, zero-all and randomize, every joint's stored value lies within
\* that joint's limits.
C6_ValuesWithinLimits ==
    \A n \in DOMAIN joints.sliders :
        /\ joints.sliders[n].lower <= joints.sliders[n].value
        /\ joints.sliders[n].value <= joints.sliders[n].upper

\* C7: set_value(v) stores v when it lies within the limits and the nearest
\* bound otherwise, and set_value of the stored result stores the same value.
C7_SetValueClamps ==
    jointsOp.op = "set_value" =>
        LET s == joints.sliders[jointsOp.joint]
        IN  /\ s.value = Nearest(s.lower, s.upper, jointsOp.val)
            /\ S_SetValue(s, s.value).value = s.value

\* set_value was given a value above the upper limit and stored the limit.
C7_Witness ==
    /\ jointsOp.op = "set_value"
    /\ jointsOp.val > joints.sliders[jointsOp.joint].upper
    /\ joints.sliders[jointsOp.joint].value = joints.sliders[jointsOp.joint].upper
    /\ joints.sliders[jointsOp.joint].lower < joints.sliders[jointsOp.joint].upper

C9_OneChangeOnePair ==
    jointsOp.op \in {"user_slider", "user_field"} =>
        LET s   == joints.sliders[jointsOp.joint]
            new == IF jointsOp.op = "user_slider"
                   THEN s.lower + (jointsOp.val * (s.upper - s.lower)) \div SliderMax
                   ELSE DegToRad(jointsOp.val)
        IN  /\ s.value = new
            /\ s.emitted = <<[name |-> s.name, value |-> new, stored |-> new]>>
            /\ s.entered = 1
            /\ ~s.updating
            /\ joints.emitted = <<JointValueChanged(jointsOp.joint, new),
                                  JointValuesChanged(J_GetValues(joints))>>
            /\ J_GetValues(joints)[jointsOp.joint] = new

\* The user dragged the slider of one of two joints to a position that also
\* changed the numeric field.
C9_Witness ==
    /\ jointsOp.op = "user_slider"
    /\ jointsOp.val = 750
    /\ DOMAIN joints.sliders = JointNames
    /\ joints.sliders[jointsOp.joint].value = 2
    /\ joints.sliders[jointsOp.joint].spin = DegStep
    /\ Len(joints.emitted) = 2

\* C10: set_values, zero-all and randomize each emit jointValuesChanged exactly
\* once, carrying the values as they are after all of them were applied, and
\* nothing else; set_value on one slider emits nothing at all, neither from the
\* slider nor from the widget.
C10_OneAggregateEvent ==
    /\ jointsOp.op \in {"set_values", "zero_all", "random"} =>
           /\ joints.emitted = <<JointValuesChanged(J_GetValues(joints))>>
           /\ \A n \in DOMAIN joints.sliders : joints.sliders[n].emitted = <<>>
    /\ jointsOp.op = "set_value" =>
           /\ joints.emitted = <<>>
           /\ \A n \in DOMAIN joints.sliders : joints.sliders[n].emitted = <<>>

\* set_values changed the value and both controls of a joint and emitted the
\* one aggregate event.
C10_Witness ==
    /\ jointsOp.op = "set_values"
    /\ DOMAIN joints.sliders = JointNames
    /\ joints.sliders["j1"].value = 1
    /\ joints.sliders["j2"].value = 0 - 5
    /\ Len(joints.emitted) = 1

\* The mappings set_values is tried with in every reachable state.
C11_Mappings ==
    UNION {[dom -> MappingValues] : dom \in SUBSET (JointNames \cup {UnknownName})}

\* C11: the key set of get_values() and of every jointValuesChanged payload is
\* the set of names handed to the most recent set_joints: set_joints leaves
\* exactly the sliders of its mapping, no other operation adds or removes a
\* slider, and set_values with any mapping, unknown names included, keeps the
\* key set and the value of every joint the mapping does not name.
C11_KeysAreConfiguredJoints ==
    /\ jointsOp.op = "set_joints" => DOMAIN J_GetValues(joints) = jointsOp.names
    /\ jointsOp.op \notin {"set_joints", "init"} =>
           DOMAIN J_GetValues(joints) = jointsOp.prevNames
    /\ \A i \in 1 .. Len(joints.emitted) :
           joints.emitted[i].sig = "jointValuesChanged" =>
               DOMAIN joints.emitted[i].values = DOMAIN joints.sliders
    /\ \A m \in C11_Mappings :
           LET w == J_SetValues(JFresh(joints), m)
           IN  /\ DOMAIN J_GetValues(w) = DOMAIN joints.sliders
               /\ \A n \in DOMAIN joints.sliders \ DOMAIN m :
                      J_GetValues(w)[n] = J_GetValues(joints)[n]
               /\ \A i \in 1 .. Len(w.emitted) :
                      DOMAIN w.emitted[i].values = DOMAIN joints.sliders

\* set_joints rebuilt a widget that held two sliders for a single joint.
C11_Witness ==
    /\ jointsOp.op = "set_joints"
    /\ jointsOp.prevNames = JointNames
    /\ jointsOp.names = {"j2"}
    /\ DOMAIN joints.sliders = {"j2"}

\* ------------------------------------------------------- claims: FKIKWidget

\* The FK/IK operations that start from a joint-space change: a control of the
\* joint widget, its Zero All button, set_joint_values with emit_signal.
JointSpaceOps == {"user_slider", "user_field", "zero_all"}

\* The aggregate events of a joint widget log, as the payloads
\* _on_fk_changed forwards.
RECURSIVE Forwarded(_)
Forwarded(log) ==
    IF log = <<>> THEN <<>>
    ELSE IF Head(log).sig = "jointValuesChanged"
    THEN <<FkValuesChanged(Head(log).values)>> \o Forwarded(Tail(log))
    ELSE Forwarded(Tail(log))

\* C12: a joint-space change handled by the coordinator starts no IK solve: a
\* solve request arriving while the syncing guard is set changes nothing, the
\* FK result written into the Cartesian display emits no poseChanged, and each
\* aggregate change of the joint widget is forwarded as exactly one external
\* jointValuesChanged (one for a user change of one control).
C12_FkStartsNoSolve ==
    /\ \A oc \in Outcomes :
           LET g == [fkik EXCEPT !.syncing = TRUE]
           IN  F_OnIkPoseChanged(g, oc) = g /\ F_OnIkSolveRequested(g, oc) = g
    /\ fkikOp.op \in JointSpaceOps \cup {"set_joint_values", "set_joints", "set_environment"} =>
           /\ fkik.solves = 0
           /\ fkik.cart.emitted = <<>>
           /\ ~fkik.syncing
    /\ fkikOp.op \in JointSpaceOps \/ (fkikOp.op = "set_joint_values" /\ fkikOp.emit) =>
           fkik.emitted = Forwarded(fkik.js.emitted)
    /\ fkikOp.op \in {"user_slider", "user_field"} =>
           /\ Len(fkik.emitted) = 1
           /\ fkik.fk_runs = 1
           /\ fkik.emitted[1] = FkValuesChanged(J_GetValues(fkik.js))

\* A user change of a joint slider was forwarded while the FK result moved the
\* Cartesian display.
C12_Witness ==
    /\ fkikOp.op = "user_slider"
    /\ fkik.env.present /\ fkik.tcp_link \in fkik.env.links
    /\ fkik.group_name \in fkik.env.groups
    /\ fkik.cart.spin["x"] /= 0
    /\ Len(fkik.emitted) = 1

\* The operations that start from a user change of the Cartesian editor.
CartOps == {"cart_slider", "cart_spin"}

\* The last operation asked the solver of a group the environment has, and
\* the solver returned a solution.
IkSucceeded ==
    /\ fkikOp.op \in CartOps
    /\ fkik.solves > 0
    /\ fkikOp.kind = "solution"
    /\ fkik.group_name \in fkik.env.groups

\* The joint values _on_ik_solve_requested builds from the first solution.
SolvedValues == [n \in {fkik.joint_names[i] : i \in DOMAIN fkik.joint_names} |-> fkikOp.sol[n]]

\* C13: after a successful IK solve every solved joint that has a slider shows
\* the returned value (brought into its limits by set_value), the sliders were
\* written while the syncing guard was set, _on_fk_changed did not run, and
\* the external log holds jointValuesChanged exactly once, with the solution,
\* followed by ikSolveRequested.
C13_SolutionWrittenUnderGuard ==
    IkSucceeded =>
        /\ fkik.solves = 1
        /\ fkik.write_guard
        /\ fkik.fk_runs = 0
        /\ fkik.js.emitted = <<>>
        /\ \A n \in DOMAIN fkik.js.sliders \cap DOMAIN SolvedValues :
               S_Value(fkik.js.sliders[n]) = S_Clamp(fkik.js.sliders[n], SolvedValues[n])
        /\ fkik.emitted = <<FkValuesChanged(SolvedValues), FkSolveRequested>>
        /\ ~fkik.syncing

\* A solve moved a slider.
C13_Witness ==
    /\ IkSucceeded
    /\ fkikOp.moved
    /\ DOMAIN fkik.js.sliders = JointNames
    /\ S_Value(fkik.js.sliders["j1"]) = 3

\* The last operation was an IK request that failed: nothing configured, no
\* kinematic group, no solution, or an exception.
IkFailed == fkikOp.op \in CartOps /\ ~IkSucceeded

\* C14: after a failed IK request every slider holds the value it held before,
\* the external log is empty, the handler has returned with the guard
\* lowered, and a configured coordinator answers the next request: a solution
\* reaches the external listeners.
C14_FailureLeavesJoints ==
    IkFailed =>
        /\ ~fkikOp.moved
        /\ fkik.js.emitted = <<>>
        /\ fkik.emitted = <<>>
        /\ ~fkik.syncing
        /\ (fkik.env.present /\ fkik.group_name \in fkik.env.groups) =>
               \A oc \in Solved :
                   LET g == F_OnIkPoseChanged(FFresh(fkik), oc)
                   IN  g.solves = 1 /\ Len(g.emitted) = 2 /\ ~g.syncing

\* The solver found nothing for a robot whose first slider had been moved.
C14_Witness ==
    /\ IkFailed
    /\ fkikOp.kind = "no_solution"
    /\ fkik.solves = 1
    /\ DOMAIN fkik.js.sliders = JointNames
    /\ S_Value(fkik.js.sliders["j1"]) = 4

\* ---------------------------------------------------------- claims: scene

\* The number of actors of one kind the renderer holds.
RECURSIVE CountOver(_, _, _)
CountOver(r, ids, kind) ==
    IF ids = <<>> THEN 0
    ELSE (IF Head(ids)[1] = kind THEN r[Head(ids)] ELSE 0) + CountOver(r, Tail(ids), kind)

RendererCount(kind) == CountOver(scene.renderer, SetToSeq(DOMAIN scene.renderer), kind)

\* The visual of the loaded environment an actor was created from.
VisualOf(k) == SceneGraphs[scene.env.id][k[1]][k[2] + 1]

\* C15: after update_from_state (at the end of load_environment and of
\* update_joint_values) every geometry actor has the transform of its link
\* times the origin of the visual it was created from.
C15_ActorAtLinkTimesOrigin ==
    (sceneOp.op \in {"load_environment", "update_joint_values"} /\ scene.env.present) =>
        \A k \in DOMAIN scene.actors :
            scene.actors[k].xform =
                Compose(LinkTransforms(scene.env)[k[1]], VisualOf(k).origin)

\* C16: update_joint_values calls setState, pushes the transforms and renders,
\* in that order; when setState raises, the error is caught and no actor has
\* another transform than before; without environment nothing is called.
C16_UpdatePushesThenRenders ==
    sceneOp.op = "update_joint_values" =>
        /\ (scene.env.present /\ ~sceneOp.raised) =>
               scene.calls = <<"setState", "update_from_state", "Render">>
        /\ (scene.env.present /\ sceneOp.raised) =>
               /\ scene.calls = <<"setState raised", "update_from_state", "Render">>
               /\ ~sceneOp.moved
        /\ ~scene.env.present => (scene.calls = <<>> /\ ~sceneOp.moved)

\* C17: when load_environment returns, link_actors has one entry per link of
\* the environment, actors holds only keys "{link}/visual_{i}" of its visuals,
\* and the renderer holds these actors and nothing else: no frame, path,
\* workspace cloud, FK marker or contact visual, and no actor of an earlier
\* environment.
C17_LoadReplacesScene ==
    sceneOp.op = "load_environment" =>
        LET graph == SceneGraphs[scene.env.id]
        IN  /\ DOMAIN scene.link_actors = DOMAIN graph
            /\ \A k \in DOMAIN scene.actors :
                   k[1] \in DOMAIN graph /\ k[2] \in 0 .. Len(graph[k[1]]) - 1
            /\ DOMAIN scene.renderer = {scene.actors[k].id : k \in DOMAIN scene.actors}
            /\ \A id \in DOMAIN scene.renderer : scene.renderer[id] = 1 /\ id[2] = scene.env.id
            /\ DOMAIN scene.frame_actors = {} /\ DOMAIN scene.path_actors = {}
            /\ DOMAIN scene.fk_actors = {} /\ ~scene.workspace_actor
            /\ scene.contact_viz = ContactInit

\* An environment replaced one whose scene showed overlays of every kind.
C17_Witness ==
    /\ sceneOp.op = "load_environment"
    /\ sceneOp.had
    /\ scene.env.id = "cell"
    /\ DOMAIN scene.actors = {Key("base", 0)}

\* ------------------------------------- claims: contacts and link highlight

\* C18: in one visualize_contacts call no link is recolored twice, the table
\* holds exactly the recolored links, every link of a record that has actors
\* shows the collision color, and what the table stores is the color from
\* before the first call; clear() empties the table, and after visualize
\* calls followed by clear() every actor has the color from before the first.
C18_RecolorOnceAndRestore ==
    LET cv == scene.contact_viz
        table == cv.highlighted_links
    IN  /\ sceneOp.op = "visualize_contacts" =>
               /\ \A i, j \in DOMAIN cv.recolored :
                      cv.recolored[i] = cv.recolored[j] => i = j
               /\ DOMAIN table = {cv.recolored[i] : i \in DOMAIN cv.recolored}
               /\ \A l \in DOMAIN table : \A j \in DOMAIN table[l].keys :
                      /\ scene.actors[table[l].keys[j]].color = CollisionColor
                      /\ sceneOp.run = "visualize" =>
                             table[l].colors[j] = sceneOp.base[table[l].keys[j]]
               /\ \A k \in DOMAIN scene.actors :
                      (sceneOp.run = "visualize" /\ k[1] \notin DOMAIN table) =>
                          scene.actors[k].color = sceneOp.base[k]
        /\ sceneOp.op = "clear_contacts" =>
               /\ DOMAIN table = {}
               /\ sceneOp.run = "cleared" => Colors(scene) = sceneOp.base

\* clear() restored two links that visualize calls had recolored, one of them
\* with a material color.
C18_Witness ==
    /\ sceneOp.op = "clear_contacts"
    /\ sceneOp.run = "cleared"
    /\ sceneOp.undone = 2
    /\ Key("base", 0) \in DOMAIN scene.actors
    /\ scene.actors[Key("base", 0)].color = "red"

\* C19: when visualize_contacts returns, the marker lists and the renderer hold
\* two point markers and one arrow for each record with two nearest points and
\* a normal, whatever was shown before; after clear() they hold none.
C19_MarkersOfCurrentCall ==
    /\ RendererCount("contact") = Len(scene.contact_viz.contact_actors)
    /\ RendererCount("normal") = Len(scene.contact_viz.normal_actors)
    /\ sceneOp.op = "visualize_contacts" =>
           /\ RendererCount("contact") = 2 * sceneOp.full
           /\ RendererCount("normal") = sceneOp.full
    /\ sceneOp.op = "clear_contacts" =>
           RendererCount("contact") = 0 /\ RendererCount("normal") = 0

\* One contact is shown after a call that showed two.
C19_Witness ==
    /\ sceneOp.op = "visualize_contacts"
    /\ sceneOp.markers = 6
    /\ sceneOp.full = 1
    /\ RendererCount("contact") = 2

\* C20: highlight_link(name, True) leaves every actor of the link in the
\* selection color, a following highlight_link(name, False) gives every actor
\* the color it had before, and the same call again changes nothing.
C20_HighlightRestores ==
    sceneOp.op = "highlight_link" =>
        /\ SM_HighlightLink(scene, sceneOp.link, sceneOp.on) = scene
        /\ (sceneOp.on /\ sceneOp.link \in DOMAIN scene.link_actors) =>
               \A p \in DOMAIN scene.link_actors[sceneOp.link] :
                   scene.actors[scene.link_actors[sceneOp.link][p]].color = SelectColor
        /\ sceneOp.run = "restored" => Colors(scene) = sceneOp.base

\* ------------------------------------------- claims: play, pause, the timer

\* A play() or pause() call, by name or by the play/pause button.
Played == playerOp.op = "play" \/ (playerOp.op = "play_pause" /\ ~playerOp.wasPlaying)

Paused == playerOp.op = "pause" \/ (playerOp.op = "play_pause" /\ playerOp.wasPlaying)

\* C24 as stated: play() from stopped or paused makes the player playing and
\* emits exactly one stateChanged("playing"), whatever is loaded.
C24_PlayAlwaysPlays ==
    (Played /\ ~playerOp.wasPlaying) =>
        /\ player.playing
        /\ player.emitted = <<StateEvent("playing")>>

\* C24, amended: with at least one waypoint loaded, play() from stopped or
\* paused makes the player playing, emits exactly one stateChanged("playing")
\* and leaves the cursor where it was; pause() from playing makes it not
\* playing, emits exactly one stateChanged("paused") and no frameChanged, and
\* leaves the cursor where it was.
C24_PlayPauseKeepCursor ==
    /\ (Played /\ ~playerOp.wasPlaying /\ player.frame_count > 0) =>
           /\ player.playing
           /\ player.timer_active
           /\ player.emitted = <<StateEvent("playing")>>
           /\ player.frame = playerOp.prevFrame
    /\ (Paused /\ playerOp.wasPlaying) =>
           /\ ~player.playing
           /\ ~player.timer_active
           /\ player.emitted = <<StateEvent("paused")>>
           /\ player.frame = playerOp.prevFrame

\* A playing player was paused at a cursor away from the start.
C24_Witness ==
    /\ Paused
    /\ playerOp.wasPlaying
    /\ player.frame > 0
    /\ player.emitted = <<StateEvent("paused")>>

\* C25: in every state the timer is active exactly when the player is playing,
\* and the player is playing only with at least one waypoint loaded; play()
\* with nothing loaded changes no state and emits nothing, and
\* load_trajectory leaves the player not playing.
C25_TimerIffPlaying ==
    /\ [](player.timer_active <=> player.playing)
    /\ [](player.playing => (player.frame_count >= 1 /\ Truthy(player.trajectory)))
    /\ [](playerOp.op = "load" => (~player.playing /\ ~player.timer_active))
    /\ [][(Played' /\ player.frame_count = 0) => player' = Fresh(player)]_vars

\* A trajectory was loaded while the player was playing.
C25_Witness ==
    /\ playerOp.op = "load"
    /\ playerOp.wasPlaying
    /\ player.frame_count >= 1
    /\ ~player.playing

\* ------------------------------------------------ claims: re-entrancy guards

\* C26: between handlers every guard is clear: the player's _updating, the
\* _updating of every JointSlider and of the Cartesian editor, and the
\* FKIKWidget's _syncing, after a success and after every failure.
C26_GuardsClear ==
    /\ ~player.updating
    /\ ~fkik.syncing
    /\ ~fkik.cart.updating
    /\ \A n \in DOMAIN fkik.js.sliders : ~fkik.js.sliders[n].updating

\* An IK request ended in the except clause.
C26_Witness ==
    /\ fkikOp.op \in CartOps
    /\ fkikOp.kind = "raise"
    /\ fkik.status = "IK: error"
    /\ fkik.solves > 0

\* C27: after a successful IK solve of a robot with a slider for every solved
\* joint, the values carried by the emitted jointValuesChanged event are the
\* values the joint sliders hold, for every solution, one outside a joint's
\* limits included.
C27_EmittedEqualsSliders ==
    (IkSucceeded /\ DOMAIN fkik.js.sliders = DOMAIN SolvedValues) =>
        \E i \in DOMAIN fkik.emitted :
            /\ fkik.emitted[i].sig = "jointValuesChanged"
            /\ fkik.emitted[i].values = F_GetJointValues(fkik)

\* ------------------------------------- claims: highlight against contacts

\* C28: whenever the last highlight_link call on the link was
\* highlight_link(name, False) and the last contact call was clear, no actor
\* of the link has the selection color or the collision color.
C28_NoHighlightLeft ==
    (sceneOp.op /= "init" /\ sceneOp.hl = "off" /\ sceneOp.ct = "clear") =>
        \A k \in DOMAIN scene.actors :
            k[1] = SharedLink => scene.actors[k].color \notin {SelectColor, CollisionColor}

\* ---------------------------------------------- claims: workspace sampling

\* C21: when sample_workspace returns, the joint value of the environment is
\* the one it had before the call; it returns at most n_samples points, and
\* none when there is no environment or no TCP link.
C21_SampleRestoresState ==
    sceneOp.op = "sample_workspace" =>
        /\ scene.env.q = sceneOp.q
        /\ Len(sceneOp.points) <= sceneOp.n
        /\ (~sceneOp.present \/ sceneOp.tcp = "") => sceneOp.points = <<>>

\* ------------------------------------------------------ claims: the viewer

\* C22: a load that fails shows an error box and leaves the viewer's
\* environment and stored URDF/SRDF paths as they were before the attempt.
C22_FailedLoadKeepsState ==
    viewerOp.failed =>
        /\ \E i \in DOMAIN viewer.dialogs : viewer.dialogs[i] = "critical"
        /\ viewer.env = viewerOp.prev.env
        /\ viewer.paths = viewerOp.prev.paths

\* The place of a path in the files loaded so far, the latest first.
Recency(path) == CHOOSE i \in DOMAIN viewerOp.mru : viewerOp.mru[i] = path

NoPathTwice ==
    \A i, j \in DOMAIN viewer.recent : viewer.recent[i] = viewer.recent[j] => i = j

\* C30 as stated: in every state the recent list holds no path twice and at
\* most 10 entries, the file loaded last is its first entry, and the others
\* follow with the later loaded first.
C30_LastLoadedFirst ==
    /\ NoPathTwice
    /\ Len(viewer.recent) <= RecentMax
    /\ viewerOp.mru /= <<>> =>
           /\ viewer.recent /= <<>>
           /\ viewer.recent[1] = Head(viewerOp.mru)
    /\ \A i, j \in DOMAIN viewer.recent :
           i < j => Recency(viewer.recent[i]) < Recency(viewer.recent[j])

\* C30, amended: the recent list holds no path twice and at most 10 entries,
\* its entries are loaded files with the later loaded first, and after a load
\* that went through the loaded file is the first entry; a file found missing
\* by open-recent leaves the list, also when it was the file loaded last.
C30_RecentInLoadOrder ==
    /\ NoPathTwice
    /\ Len(viewer.recent) <= RecentMax
    /\ \A i \in DOMAIN viewer.recent :
           \E k \in DOMAIN viewerOp.mru : viewerOp.mru[k] = viewer.recent[i]
    /\ \A i, j \in DOMAIN viewer.recent :
           i < j => Recency(viewer.recent[i]) < Recency(viewer.recent[j])
    /\ viewerOp.loaded =>
           /\ viewer.recent /= <<>>
           /\ viewer.recent[1] = Head(viewerOp.mru)
           /\ viewer.recent[1] = Resolve(viewer.paths[1])
    /\ (viewerOp.op = "open_recent" /\ viewerOp.missing) =>
           Len(viewer.recent) < RecentMax

\* A file loaded before was opened again from the last row of a full recent
\* list after more files than the list holds were loaded.
C30_Witness ==
    /\ viewerOp.op = "open_recent"
    /\ viewerOp.loaded
    /\ Len(viewer.recent) = RecentMax
    /\ Len(viewerOp.mru) > RecentMax
    /\ viewer.recent[1] = viewerOp.mru[1]
    /\ viewer.recent[1][2] < viewer.recent[2][2]

\* ----------------------------------------------------- claims: named poses

\* C23: a fresh StateManager that loads the file written by save_to_file
\* holds the poses, name by name and joint by joint, that the saving
\* StateManager held.
C23_SaveLoadRoundTrip ==
    storeOp.op = "load_fresh" => storeOp.loaded.poses = storeOp.saved

\* Two poses were loaded back, a name with an escaped character and a
\* negative float among them.
C23_Witness ==
    /\ storeOp.op = "load_fresh"
    /\ Len(storeOp.loaded.poses) = MaxPoses
    /\ <<"\\", "eacute">> \in Keys(storeOp.loaded.poses)
    /\ \E i \in DOMAIN storeOp.loaded.poses :
           \E k \in DOMAIN storeOp.loaded.poses[i][2] :
               storeOp.loaded.poses[i][2][k][2] = PyFloat(-15)
    /\ store.file /= JsonDump(store.mgr.poses)

\* ---------------------------------------------- claims: group states editor

\* C29: a rename in the group-states editor changes only the name of the
\* renamed state: the group keeps its number of states, every other state
\* keeps its name and its joint values, and the renamed state keeps its
\* values under the new name, whatever the new name is.
C29_RenameChangesOnlyName ==
    editorOp.op = "rename" =>
        LET before == editorOp.prev
            after  == Get(editor.states, editorOp.group)
        IN  /\ Len(after) = Len(before)
            /\ \A k \in Keys(before) \ {editorOp.old} :
                   k \in Keys(after) /\ Get(after, k) = Get(before, k)
            /\ editorOp.new \in Keys(after)
            /\ Get(after, editorOp.new) = Get(before, editorOp.old)

====
